---- MODULE Spec2Model ----
(***************************************************************************)
(* PraisonAI Bench - the evaluation core.                                  *)
(*                                                                         *)
(* Spec       : one CombinedEvaluator instance serving evaluate() calls:   *)
(*              SimpleEvaluator.evaluate (browser render + scoring), then  *)
(*              the optional LLMJudge.evaluate, then the 70/30 combination.*)
(* SpecHybrid : the four-component composite scorer with declared weights  *)
(*              0.15/0.40/0.20/0.25 and weight renormalisation.            *)
(* SpecExpected, SpecHtml, SpecTags, SpecComposite : the evaluators of     *)
(*              evaluator.py, each run on bounded sets of response texts.  *)
(*                                                                         *)
(* Numbers: functional scores and overall scores are integers; a JSON      *)
(* score is kept in tenths so that 85.5 is representable;                  *)
(* weights are kept in hundredths and effective weights / hybrid scores as *)
(* exact fractions num/den.                                                *)
(***************************************************************************)
EXTENDS Integers, Sequences, FiniteSets, TLC

VARIABLES
    use_llm_judge,      \* CombinedEvaluator.__init__: self.llm_judge is not None
    pc,                 \* position of the evaluate() call in progress
    prompt,             \* the prompt argument of the call in progress
    render_raised,      \* step of the render at which the capability raised, or "none"
    functional_result,  \* <<>> or <<result dict of SimpleEvaluator.evaluate>>
    judge_reply,        \* <<>> or <<reply of the generation capability>>
    quality,            \* result['quality']: <<>> (None) or <<dict of LLMJudge.evaluate>>
    overall_score,      \* result['overall_score']
    passed,             \* result['passed']
    judge_calls,        \* number of judge capability invocations in the current call
    hy,                 \* state of the hybrid composite scorer (SpecHybrid)
    ex,                 \* an ExpectedResultEvaluator.evaluate call (SpecExpected)
    ht,                 \* an HTMLCodeEvaluator.evaluate call (SpecHtml)
    tg,                 \* a run of _validate_html_syntax, tag by tag (SpecTags)
    co,                 \* a CompositeEvaluator.evaluate call (SpecComposite)
    rn,                 \* SimpleEvaluator.evaluate calls running in parallel (SpecRender)
    er,                 \* an EvaluationResult under add_score calls (SpecScores)
    ag                  \* a BenchAgent.run_test call (SpecAgent)

vars == <<use_llm_judge, pc, prompt, render_raised, functional_result,
          judge_reply, quality, overall_score, passed, judge_calls, hy,
          ex, ht, tg, co, rn, er, ag>>

None == <<>>
Some(x) == <<x>>

\* evaluator.py: no call in progress
ExpectedIdle == [pc |-> "idle", response |-> <<>>, test_config |-> None, result |-> None]
HtmlIdle == [pc |-> "idle", response |-> <<>>, result |-> None]
TagsIdle == [pc |-> "idle", html |-> <<>>, tags |-> <<>>, pos |-> 0, tag_stack |-> <<>>, errors |-> <<>>]
CompositeIdle == [pc |-> "idle", response |-> <<>>, test_config |-> None, result |-> None]

\* simple_evaluator.py, evaluator.py, agent.py: no call in progress
RenderCallIdle ==
    [pc |-> "idle", test_name |-> <<>>, browser |-> "none", raised |-> "none",
     nerrors |-> 0, elapsed |-> 0, wrote |-> None, result |-> None]
RenderIdle ==
    [headless |-> TRUE, files |-> <<>>, calls |-> [p \in {1, 2} |-> RenderCallIdle]]
ScoresIdle ==
    [pc |-> "idle", result |-> None, recorded |-> <<>>, call |-> None,
     calls |-> 0, overall |-> None]
AgentIdle ==
    [pc |-> "idle", max_retries |-> 0, attempt |-> 0, events |-> <<>>,
     response |-> None, last_error |-> None, result |-> None]

-----------------------------------------------------------------------------
(* Bounds of the model *)

MaxErrors == 3          \* console errors captured during one render: 0..MaxErrors
MaxReplyLen == 3        \* tokens in one reply of the generation capability

-----------------------------------------------------------------------------
(* SimpleEvaluator *)

PassThreshold == 70
RenderPoints == 50
NoErrorPoints == 30
FewErrorPoints == 15
FewErrorsMax == 2
FastPoints == 20
FastLimitMs == 1000
SlowPoints == 10
SlowLimitMs == 3000
MaxScore == 100

Min(a, b) == IF a < b THEN a ELSE b

\* render_time_ms values (already rounded) a successful render may report
ElapsedValues == {999, 1000, 2999, 3000}

\* steps of the try block at which the rendering capability may raise
RenderSteps == {"sync_playwright", "launch", "new_page", "set_content",
                "wait_for_load_state", "screenshot", "close"}

ConsoleErrors(n) == [i \in 1..n |-> "console error"]

\* result dict at line 56-65, before the try block
InitialResult ==
    [score |-> 0, passed |-> FALSE, renders |-> FALSE, errors |-> <<>>,
     screenshot |-> FALSE, render_time_ms |-> 0]

\* SimpleEvaluator._calculate_score
CalculateScoreSkipsTimeGuard(result) ==
    LET r == IF result.renders THEN RenderPoints ELSE 0
        e == IF Len(result.errors) = 0 THEN NoErrorPoints
             ELSE IF Len(result.errors) <= FewErrorsMax THEN FewErrorPoints
             ELSE 0
        t == IF result.render_time_ms < FastLimitMs THEN FastPoints
             ELSE IF result.render_time_ms < SlowLimitMs THEN SlowPoints
             ELSE 0
    IN  Min(r + e + t, MaxScore)

CalculateScore(result) ==
    LET r == IF result.renders THEN RenderPoints ELSE 0
        e == IF Len(result.errors) = 0 THEN NoErrorPoints
             ELSE IF Len(result.errors) <= FewErrorsMax THEN FewErrorPoints
             ELSE 0
        t == IF result.render_time_ms > 0
             THEN IF result.render_time_ms < FastLimitMs THEN FastPoints
                  ELSE IF result.render_time_ms < SlowLimitMs THEN SlowPoints
                  ELSE 0
             ELSE 0
    IN  Min(r + e + t, MaxScore)

\* result['passed'] = result['score'] >= 70   (line 109)
PassedStrict(score) == score > PassThreshold

Passed(score) == score >= PassThreshold

\* the try/except of SimpleEvaluator.evaluate: the result dict after it.
\* step = "ok": lines 68-102 ran.  step = "close": result.update (94-100) ran
\* and browser.close() raised, so line 105 appends to the list that update
\* installed.  Any earlier step: the locally captured console errors are
\* dropped and line 105 appends one entry to the initial empty list.
RenderResult(step, nerrors, elapsed) ==
    LET updated == [InitialResult EXCEPT !.renders = TRUE,
                                         !.errors = ConsoleErrors(nerrors),
                                         !.screenshot = TRUE,
                                         !.render_time_ms = elapsed]
    IN  IF step = "ok" THEN updated
        ELSE IF step = "close"
        THEN [updated EXCEPT !.errors = Append(@, "Browser error")]
        ELSE [InitialResult EXCEPT !.errors = <<"Browser error">>]

-----------------------------------------------------------------------------
(* LLMJudge *)

\* A JSON value of the "score" key: a number (kept in tenths, so that 855
\* stands for 85.5), null or a string.
Num(tenths) == [t |-> "num", v |-> tenths]
JsonNull == [t |-> "null", v |-> 0]
JsonStr == [t |-> "str", v |-> 0]
JsonScores == {Num(-50), Num(0), Num(855), Num(1000), Num(1500),
               JsonNull, JsonStr}
IsNumber(x) == x.t = "num"

\* A reply text is a sequence of tokens: "prose" is text without braces,
\* "members" is the text  "score": <score>, "feedback": "<sentence>".
Tokens == {"prose", "lbrace", "rbrace", "members"}
Texts == UNION {[1..n -> Tokens] : n \in 0..MaxReplyLen}
HasToken(text, tok) == \E i \in 1..Len(text) : text[i] = tok

\* judge.chat(judge_prompt): it raises, or returns a text
ThrowingReply == [throws |-> TRUE, text |-> <<>>, score |-> Num(0)]
Replies ==
    {ThrowingReply} \cup
    UNION {{[throws |-> FALSE, text |-> x, score |-> sc] :
               sc \in (IF HasToken(x, "members") THEN JsonScores ELSE {Num(0)})} :
           x \in Texts}

\* re.search(r'\{.*\}', response, re.DOTALL): leftmost "{", then greedily to
\* the last "}" of the text; <<>> when there is no match.
JsonMatch(text) ==
    LET opens == {i \in 1..Len(text) : text[i] = "lbrace"}
    IN  IF opens = {} THEN <<>>
        ELSE LET i == CHOOSE a \in opens : \A b \in opens : a <= b
                 closes == {k \in (i+1)..Len(text) : text[k] = "rbrace"}
             IN  IF closes = {} THEN <<>>
                 ELSE LET j == CHOOSE a \in closes : \A b \in closes : a >= b
                      IN  SubSeq(text, i, j)

\* json.loads(span) succeeds exactly on a well-formed object
JsonLoadsOk(span) ==
    span = <<"lbrace", "members", "rbrace">> \/ span = <<"lbrace", "rbrace">>

\* the return at line 241
FailureSentinel == [quality_score |-> Num(0), feedback |-> "Evaluation failed"]

\* LLMJudge.evaluate, lines 218-241
LLMJudgeEvaluateNoDefault(reply) ==
    IF reply.throws THEN FailureSentinel
    ELSE LET span == JsonMatch(reply.text)
         IN  IF span = <<>> THEN [quality_score |-> Num(0), feedback |-> "No feedback"]
             ELSE IF ~JsonLoadsOk(span) THEN FailureSentinel
             ELSE IF HasToken(span, "members")
                  THEN [quality_score |-> reply.score, feedback |-> "sentence"]
                  ELSE [quality_score |-> Num(0), feedback |-> "No feedback"]

LLMJudgeEvaluate(reply) ==
    IF reply.throws THEN FailureSentinel
    ELSE LET span == JsonMatch(reply.text)
         IN  IF span = <<>> THEN FailureSentinel
             ELSE IF ~JsonLoadsOk(span) THEN FailureSentinel
             ELSE IF HasToken(span, "members")
                  THEN [quality_score |-> reply.score, feedback |-> "sentence"]
                  ELSE [quality_score |-> Num(0), feedback |-> "No feedback"]

-----------------------------------------------------------------------------
(* CombinedEvaluator *)

FunctionalWeightTenths == 7
QualityWeightTenths == 3

TruncDiv(a, b) == IF a >= 0 THEN a \div b ELSE -((-a) \div b)

\* <<functional score, quality score in tenths>> for which the IEEE-754 double
\* value of  score * 0.7 + quality * 0.3  lies just below the exact integer
\* result, so that int() yields one less (e.g. 90 * 0.7 = 62.99999999999999).
FloatDeficit == {<<45, -50>>, <<85, -50>>, <<90, 0>>}

\* int(functional_result['score'] * 0.7 + quality_result['quality_score'] * 0.3)
CombinedScore(fscore, qtenths) ==
    LET exact == TruncDiv(FunctionalWeightTenths * 10 * fscore
                          + QualityWeightTenths * qtenths, 100)
    IN  IF <<fscore, qtenths>> \in FloatDeficit THEN exact - 1 ELSE exact

\* result['passed'] = result['overall_score'] >= 70   (line 298)
CombinedPassed(score) == score >= PassThreshold

\* if self.llm_judge and prompt:   (line 288; self.llm_judge is None unless
\* use_llm_judge was set at construction, and "" is falsy)
JudgeRunsWithoutPrompt(enabled, p) == enabled

JudgeRuns(enabled, p) == enabled /\ p # ""

-----------------------------------------------------------------------------
(* Hybrid composite scorer: declared weights and renormalisation *)

Components == {"structural", "functional", "expected", "judge"}

\* declared weight table, in hundredths
DeclaredWeight(c) ==
    CASE c = "structural" -> 15
      [] c = "functional" -> 40
      [] c = "expected"   -> 20
      [] c = "judge"      -> 25

RECURSIVE SumOver(_, _)
SumOver(f, S) ==
    IF S = {} THEN 0
    ELSE LET c == CHOOSE x \in S : TRUE IN f[c] + SumOver(f, S \ {c})

\* structural and functional always; expected iff a non-empty expected value
\* is configured; judge iff the judge is enabled
PresentComponents(has_expected, judge_enabled) ==
    {"structural", "functional"}
        \cup (IF has_expected THEN {"expected"} ELSE {})
        \cup (IF judge_enabled THEN {"judge"} ELSE {})

\* W: the sum of the declared weights of the present components
WeightSum(S) == SumOver([c \in Components |-> DeclaredWeight(c)], S)

\* effective weight declared/W of c, as a fraction; 0 for an absent component
EffectiveWeightNotRenormalised(c, S) ==
    [num |-> IF c \in S THEN DeclaredWeight(c) ELSE 0, den |-> 100]

EffectiveWeight(c, S) ==
    [num |-> IF c \in S THEN DeclaredWeight(c) ELSE 0, den |-> WeightSum(S)]

\* overall score: sum of component_score * effective weight over S, as a fraction
HybridOverallUnweighted(scores, eff, S) ==
    [num |-> SumOver(scores, S), den |-> Cardinality(S)]

HybridOverall(scores, eff, S) ==
    [num |-> SumOver([c \in Components |-> scores[c] * eff[c].num], S),
     den |-> WeightSum(S)]

\* passed = overall_score >= 70
HybridPassed(overall) == overall.num >= PassThreshold * overall.den

HybridScores == {0, 80, 85, 90, 95, 100}

HybridIdle ==
    [pc |-> "idle", present |-> {},
     scores |-> [c \in Components |-> 0],
     effective |-> [c \in Components |-> [num |-> 0, den |-> 1]],
     overall |-> [num |-> 0, den |-> 1],
     passed |-> FALSE]

Prompts == {"", "Create a page"}

\* no call is in progress on any object
InitIdle ==
    /\ use_llm_judge = FALSE
    /\ pc = "idle"
    /\ prompt = ""
    /\ render_raised = "none"
    /\ functional_result = None
    /\ judge_reply = None
    /\ quality = None
    /\ overall_score = 0
    /\ passed = FALSE
    /\ judge_calls = 0
    /\ hy = HybridIdle
    /\ ex = ExpectedIdle
    /\ ht = HtmlIdle
    /\ tg = TagsIdle
    /\ co = CompositeIdle
    /\ rn = RenderIdle
    /\ er = ScoresIdle
    /\ ag = AgentIdle

Init ==
    /\ use_llm_judge \in BOOLEAN
    /\ pc = "idle"
    /\ prompt = ""
    /\ render_raised = "none"
    /\ functional_result = None
    /\ judge_reply = None
    /\ quality = None
    /\ overall_score = 0
    /\ passed = FALSE
    /\ judge_calls = 0
    /\ hy = HybridIdle
    /\ ex = ExpectedIdle
    /\ ht = HtmlIdle
    /\ tg = TagsIdle
    /\ co = CompositeIdle
    /\ rn = RenderIdle
    /\ er = ScoresIdle
    /\ ag = AgentIdle

\* a caller enters CombinedEvaluator.evaluate(html_content, test_name, prompt)
Call(p) ==
    /\ pc \in {"idle", "returned", "raised"}
    /\ pc' = "functional"
    /\ prompt' = p
    /\ render_raised' = "none"
    /\ functional_result' = None
    /\ judge_reply' = None
    /\ quality' = None
    /\ overall_score' = 0
    /\ passed' = FALSE
    /\ judge_calls' = 0
    /\ UNCHANGED <<use_llm_judge, hy, ex, ht, tg, co, rn, er, ag>>

\* self.functional.evaluate(...) (SimpleEvaluator.evaluate, lines 56-112) and
\* the construction of the result dict at lines 279-285
FunctionalEvaluate(step, nerrors, elapsed) ==
    /\ pc = "functional"
    /\ LET r0 == RenderResult(step, nerrors, elapsed)
           sc == CalculateScore(r0)
           r  == [r0 EXCEPT !.score = sc, !.passed = Passed(sc)]
       IN  /\ functional_result' = Some(r)
           /\ overall_score' = r.score
           /\ passed' = r.passed
    /\ render_raised' = IF step = "ok" THEN "none" ELSE step
    /\ pc' = IF JudgeRuns(use_llm_judge, prompt) THEN "judge" ELSE "returned"
    /\ UNCHANGED <<use_llm_judge, prompt, judge_reply, quality, judge_calls, hy, ex, ht, tg, co, rn, er, ag>>

\* lines 288-300: the judge call, the 70/30 combination and the return; the
\* arithmetic at 294-297 raises TypeError when quality_score is no number
JudgeEvaluate(reply) ==
    /\ pc = "judge"
    /\ LET q == LLMJudgeEvaluate(reply)
           f == functional_result[1]
       IN  /\ quality' = Some(q)
           /\ IF IsNumber(q.quality_score)
              THEN /\ overall_score' = CombinedScore(f.score, q.quality_score.v)
                   /\ passed' = CombinedPassed(overall_score')
                   /\ pc' = "returned"
              ELSE /\ pc' = "raised"
                   /\ UNCHANGED <<overall_score, passed>>
    /\ judge_reply' = Some(reply)
    /\ judge_calls' = judge_calls + 1
    /\ UNCHANGED <<use_llm_judge, prompt, render_raised, functional_result, hy, ex, ht, tg, co, rn, er, ag>>

Next ==
    \/ \E p \in Prompts : Call(p)
    \/ \E step \in RenderSteps \cup {"ok"}, n \in 0..MaxErrors, el \in ElapsedValues :
          FunctionalEvaluate(step, n, el)
    \/ \E reply \in Replies : JudgeEvaluate(reply)

Spec == Init /\ [][Next]_vars

-----------------------------------------------------------------------------
(* The hybrid composite scorer as a state machine *)

\* one composite evaluation: the sub-scores of the present components are
\* combined; an absent component has no score (kept as 0, weight 0)
HybridEvaluate(has_expected, judge_enabled, sub) ==
    /\ hy.pc = "idle"
    /\ LET S == PresentComponents(has_expected, judge_enabled)
           scores == [c \in Components |-> IF c \in S THEN sub[c] ELSE 0]
           eff == [c \in Components |-> EffectiveWeight(c, S)]
           ov == HybridOverall(scores, eff, S)
       IN  hy' = [pc |-> "returned", present |-> S, scores |-> scores,
                  effective |-> eff, overall |-> ov, passed |-> HybridPassed(ov)]
    /\ UNCHANGED <<use_llm_judge, pc, prompt, render_raised, functional_result,
                   judge_reply, quality, overall_score, passed, judge_calls,
                   ex, ht, tg, co, rn, er, ag>>

\* the breakdown is handed to the caller; the scorer keeps nothing
HybridReturn ==
    /\ hy.pc = "returned"
    /\ hy' = HybridIdle
    /\ UNCHANGED <<use_llm_judge, pc, prompt, render_raised, functional_result,
                   judge_reply, quality, overall_score, passed, judge_calls,
                   ex, ht, tg, co, rn, er, ag>>

NextHybrid ==
    \/ \E he \in BOOLEAN, je \in BOOLEAN, sub \in [Components -> HybridScores] :
          HybridEvaluate(he, je, sub)
    \/ HybridReturn

SpecHybrid == InitIdle /\ [][NextHybrid]_vars

-----------------------------------------------------------------------------
(* Properties *)

ClaimWeight == [structural |-> 15, functional |-> 40, expected |-> 20, judge |-> 25]
ClaimW(S) == SumOver(ClaimWeight, S)
Returned == hy.pc = "returned"

\* C1: for every present set S with {structural, functional} <= S <= the four
\* components, the effective weights of the members of S (declared / W) sum
\* to 1, and absent components carry no weight: their declared weight is
\* redistributed to the present ones, never dropped.
C1_EffectiveWeightsSumToOne ==
    Returned =>
        /\ {"structural", "functional"} \subseteq hy.present
        /\ hy.present \subseteq Components
        /\ \A c \in hy.present :
              /\ hy.effective[c].den > 0
              /\ hy.effective[c].num * ClaimW(hy.present)
                    = ClaimWeight[c] * hy.effective[c].den
              /\ hy.effective[c].den = hy.effective["structural"].den
        /\ \A c \in Components \ hy.present : hy.effective[c].num = 0
        /\ SumOver([c \in Components |-> hy.effective[c].num], hy.present)
              = hy.effective["structural"].den

C1_Witness ==
    /\ Returned
    /\ hy.present = {"structural", "functional", "judge"}
    /\ hy.effective["functional"].num * 2 = hy.effective["functional"].den

C3_PassedIffAtLeast70 ==
    /\ functional_result # None =>
          (functional_result[1].passed <=> functional_result[1].score >= 70)
    /\ pc = "returned" => (passed <=> overall_score >= 70)

C3_Witness ==
    /\ pc = "returned"
    /\ quality # None
    /\ overall_score = 70
    /\ passed

RuleInputs ==
    [renders : BOOLEAN,
     errors : {ConsoleErrors(n) : n \in 0..MaxErrors},
     render_time_ms : ElapsedValues \cup {0}]
WorstCaseScore ==
    CHOOSE w \in {CalculateScore(i) : i \in RuleInputs} :
        \A i \in RuleInputs : w <= CalculateScore(i)

\* C5: when the rendering capability raises (unavailable, launch,
\* set_content, network-idle timeout, screenshot) evaluate returns a result
\* with renders = false, exactly one error entry, passed = false and the
\* worst-case score, the lowest score the scoring rule can produce.
C5_RenderFailureWorstCase ==
    (functional_result # None
       /\ render_raised \in {"sync_playwright", "launch", "new_page", "set_content",
                             "wait_for_load_state", "screenshot"}) =>
        LET r == functional_result[1]
        IN  /\ ~r.renders
            /\ Len(r.errors) = 1
            /\ ~r.passed
            /\ r.score = WorstCaseScore

\* C6: no renderer outcome and no judge reply makes
\* CombinedEvaluator.evaluate raise: every call returns a result.
C6_EvaluateNeverRaises == pc # "raised"

\* the {...} span of a reply, in the claims' own terms
ReplyHasSpan(text) ==
    \E i, j \in 1..Len(text) : i < j /\ text[i] = "lbrace" /\ text[j] = "rbrace"
ReplySpanParses(text) ==
    \E i, j \in 1..Len(text) :
        /\ i < j /\ text[i] = "lbrace" /\ text[j] = "rbrace"
        /\ \A k \in 1..(i-1) : text[k] # "lbrace"
        /\ \A k \in (j+1)..Len(text) : text[k] # "rbrace"
        /\ \/ j = i + 1
           \/ j = i + 2 /\ text[i+1] = "members"
JudgeFailed ==
    /\ judge_reply # None
    /\ \/ judge_reply[1].throws
       \/ ~ReplyHasSpan(judge_reply[1].text)
       \/ ~ReplySpanParses(judge_reply[1].text)

\* C7: LLMJudge.evaluate never raises; when the generation call throws, the
\* reply has no {...} span, or the located span does not parse as JSON, it
\* returns exactly quality_score = 0 and feedback = "Evaluation failed".
C7_JudgeFailureSentinel ==
    /\ judge_reply # None => quality # None
    /\ JudgeFailed =>
          /\ quality[1].quality_score = [t |-> "num", v |-> 0]
          /\ quality[1].feedback = "Evaluation failed"

C7_Witness ==
    /\ judge_reply # None
    /\ ~judge_reply[1].throws
    /\ ReplyHasSpan(judge_reply[1].text)
    /\ ~ReplySpanParses(judge_reply[1].text)
    /\ quality # None
    /\ quality[1].feedback = "Evaluation failed"

\* C8: for every reply the quality_score returned by LLMJudge.evaluate is an
\* integer in 0..100.
C8_QualityScoreIsIntIn0To100 ==
    quality # None =>
        LET q == quality[1].quality_score
        IN  /\ q.t = "num"
            /\ q.v % 10 = 0
            /\ 0 <= q.v /\ q.v <= 1000

\* C9: every overall_score returned by CombinedEvaluator.evaluate lies in
\* the closed range [0, 100].
C9_OverallScoreInRange ==
    pc = "returned" => (0 <= overall_score /\ overall_score <= 100)

\* C10: a failed judge call is weighted like an absent judge: overall_score
\* and passed equal the values the evaluation yields with the judge disabled
\* (the functional result's score and passed).
C10_FailedJudgeLikeAbsent ==
    (pc = "returned" /\ JudgeFailed) =>
        /\ overall_score = functional_result[1].score
        /\ passed = functional_result[1].passed

-----------------------------------------------------------------------------
(* Text: a Python str is the sequence of its characters *)

UpperCase == <<"A", "B", "C", "D", "E", "F", "G", "H", "I", "J", "K", "L", "M", "N", "O", "P", "Q", "R", "S", "T", "U", "V", "W", "X", "Y", "Z">>
LowerCase == <<"a", "b", "c", "d", "e", "f", "g", "h", "i", "j", "k", "l", "m", "n", "o", "p", "q", "r", "s", "t", "u", "v", "w", "x", "y", "z">>
Digits == {"0", "1", "2", "3", "4", "5", "6", "7", "8", "9"}
\* the backquote character, which a string of this language cannot hold
Backtick == "backquote"

Range(s) == {s[i] : i \in 1..Len(s)}

\* str.lower() on one character
LowerOf == [c \in Range(UpperCase) |->
               LowerCase[CHOOSE i \in 1..Len(UpperCase) : UpperCase[i] = c]]
Lower(c) == IF c \in DOMAIN LowerOf THEN LowerOf[c] ELSE c

\* the regular-expression classes \w and \s
WordChars == Range(UpperCase) \cup Range(LowerCase) \cup Digits \cup {"_"}
IsWordChar(c) == c \in WordChars
IsSpace(c) == c \in {" ", "\n", "\t"}

RECURSIVE Flatten(_)
Flatten(pieces) ==
    IF pieces = <<>> THEN <<>> ELSE Head(pieces) \o Flatten(Tail(pieces))

\* sequences over S of length at most n
SeqsUpTo(S, n) == UNION {[1..k -> S] : k \in 0..n}

\* pat occurs in text at position i
MatchesAt(text, pat, i) ==
    /\ i >= 1
    /\ i + Len(pat) - 1 <= Len(text)
    /\ \A k \in 1..Len(pat) : text[i + k - 1] = pat[k]

\* Python's  pat in text
Contains(text, pat) == \E i \in 1..(Len(text) + 1) : MatchesAt(text, pat, i)

\* str.strip()
Strip(text) ==
    LET keep == {i \in 1..Len(text) : ~IsSpace(text[i])}
    IN  IF keep = {} THEN <<>>
        ELSE SubSeq(text, CHOOSE i \in keep : \A j \in keep : i <= j,
                          CHOOSE i \in keep : \A j \in keep : i >= j)

\* str.split(): the maximal runs of non-whitespace characters
Split(text) ==
    {SubSeq(text, i, j) : <<i, j>> \in
        {p \in (1..Len(text)) \X (1..Len(text)) :
            /\ p[1] <= p[2]
            /\ \A k \in p[1]..p[2] : ~IsSpace(text[k])
            /\ (p[1] = 1 \/ IsSpace(text[p[1] - 1]))
            /\ (p[2] = Len(text) \/ IsSpace(text[p[2] + 1]))}}


-----------------------------------------------------------------------------
(* evaluator.py: EvaluationResult *)

\* exact rationals stand for the float scores
Frac(n, d) == [num |-> n, den |-> d]
FracAdd(a, b) == Frac(a.num * b.den + b.num * a.den, a.den * b.den)
FracEq(a, b) == a.num * b.den = b.num * a.den
FracLess(a, b) == a.num * b.den < b.num * a.den

RECURSIVE FracSum(_, _)
FracSum(f, S) ==
    IF S = {} THEN Frac(0, 1)
    ELSE LET n == CHOOSE x \in S : TRUE IN FracAdd(f[n], FracSum(f, S \ {n}))

\* EvaluationResult(): scores maps a name to its percentage
EmptyResult == [scores |-> <<>>, passed |-> TRUE, feedback |-> <<>>, metrics |-> <<>>]

\* add_score(name, value) with max_value 100.0: percentage = value / 100 * 100
AddScore(result, name, value) ==
    [result EXCEPT !.scores = (name :> value) @@ result.scores]

\* the "percentage" of add_score for whole numbers value and max_value
Percentage(value, max_value) ==
    IF max_value > 0 THEN Frac(value * 100, max_value) ELSE Frac(0, 1)

AddScoreWithMaxKeepsFirst(result, name, value, max_value) ==
    [result EXCEPT !.scores = result.scores @@ (name :> Percentage(value, max_value))]

\* add_score(name, value, max_value)
AddScoreWithMax(result, name, value, max_value) ==
    [result EXCEPT !.scores = (name :> Percentage(value, max_value)) @@ result.scores]

AddFeedback(result, message, severity) ==
    [result EXCEPT !.feedback =
        Append(result.feedback, [message |-> message, severity |-> severity])]

AddMetric(result, name, value) ==
    [result EXCEPT !.metrics = (name :> value) @@ result.metrics]

SetPassed(result, p) == [result EXCEPT !.passed = p]

\* get_overall_score(): the mean of the percentages, 0.0 without scores
GetOverallScore(result) ==
    IF result.scores = <<>> THEN Frac(0, 1)
    ELSE LET total == FracSum(result.scores, DOMAIN result.scores)
         IN  Frac(total.num, total.den * Cardinality(DOMAIN result.scores))

-----------------------------------------------------------------------------
(* evaluator.py: ExpectedResultEvaluator *)

KeywordMinLen == 3
HighSimilarityTenths == 8
ModerateSimilarityTenths == 5

\* _normalize_text: lower(), \s+ -> ' ', [^\w\s] removed, strip()
NormalizeText(text) ==
    LET lowered == [i \in 1..Len(text) |-> Lower(text[i])]
        collapsed == SelectSeq(
            [i \in 1..Len(lowered) |->
                IF IsSpace(lowered[i])
                THEN IF i > 1 /\ IsSpace(lowered[i - 1]) THEN "" ELSE " "
                ELSE lowered[i]],
            LAMBDA c : c # "")
    IN  Strip(SelectSeq(collapsed, LAMBDA c : IsWordChar(c) \/ IsSpace(c)))

\* the length of the common run of a from i and b from j
RECURSIVE CommonRun(_, _, _, _)
CommonRun(a, b, i, j) ==
    IF i > Len(a) \/ j > Len(b) THEN 0
    ELSE IF a[i] # b[j] THEN 0
    ELSE 1 + CommonRun(a, b, i + 1, j + 1)

\* SequenceMatcher.find_longest_match over whole a and b, no junk: the
\* longest common block <<i, j, k>>, of those the one starting earliest in
\* a, of those the one starting earliest in b
FindLongestMatch(a, b) ==
    LET run == [p \in (1..Len(a)) \X (1..Len(b)) |-> CommonRun(a, b, p[1], p[2])]
        k == CHOOSE n \in 0..Len(b) :
                /\ n = 0 \/ \E p \in DOMAIN run : run[p] = n
                /\ \A p \in DOMAIN run : run[p] <= n
        starts == {p \in DOMAIN run : run[p] = k}
        i == CHOOSE x \in {p[1] : p \in starts} : \A p \in starts : x <= p[1]
        j == CHOOSE y \in {p[2] : p \in {q \in starts : q[1] = i}} :
                \A p \in {q \in starts : q[1] = i} : y <= p[2]
    IN  IF k = 0 THEN <<1, 1, 0>> ELSE <<i, j, k>>

\* SequenceMatcher.get_matching_blocks: the matched characters, found by
\* taking the longest block and recursing to its left and to its right
RECURSIVE MatchingCount(_, _)
MatchingCount(a, b) ==
    IF a = <<>> \/ b = <<>> THEN 0
    ELSE LET blk == FindLongestMatch(a, b)
             i == blk[1]
             j == blk[2]
             k == blk[3]
         IN  IF k = 0 THEN 0
             ELSE k + MatchingCount(SubSeq(a, 1, i - 1), SubSeq(b, 1, j - 1))
                    + MatchingCount(SubSeq(a, i + k, Len(a)), SubSeq(b, j + k, Len(b)))

\* _calculate_similarity: SequenceMatcher(None, str1, str2).ratio(), which is
\* 2.0 * matches / (len(a) + len(b)), and 1.0 when both are empty
CalculateSimilarityUndoubled(str1, str2) ==
    IF Len(str1) + Len(str2) = 0 THEN Frac(1, 1)
    ELSE Frac(MatchingCount(str1, str2), Len(str1) + Len(str2))

CalculateSimilarity(str1, str2) ==
    IF Len(str1) + Len(str2) = 0 THEN Frac(1, 1)
    ELSE Frac(2 * MatchingCount(str1, str2), Len(str1) + Len(str2))

\* _extract_keywords: the distinct words longer than 3 characters
ExtractKeywords(text) == {w \in Split(text) : Len(w) > KeywordMinLen}

\* ExpectedResultEvaluator.evaluate; test_config holds the "expected" entry,
\* None when the key is missing
ExpectedResultEvaluate(response, test_config) ==
    IF test_config = None \/ test_config[1] = <<>>
    THEN AddFeedback(EmptyResult, "No expected result provided, skipping comparison", "info")
    ELSE
      LET response_clean == NormalizeText(response)
          expected_clean == NormalizeText(test_config[1])
          similarity == CalculateSimilarity(response_clean, expected_clean)
          r1 == AddScore(EmptyResult, "similarity",
                         Frac(similarity.num * 100, similarity.den))
          r2 == IF response_clean = expected_clean
                THEN AddMetric(AddFeedback(r1, "Exact match", "success"),
                               "exact_match", TRUE)
                ELSE IF FracLess(Frac(HighSimilarityTenths, 10), similarity)
                THEN AddMetric(AddFeedback(r1, "High similarity", "success"),
                               "exact_match", FALSE)
                ELSE IF FracLess(Frac(ModerateSimilarityTenths, 10), similarity)
                THEN AddMetric(AddFeedback(r1, "Moderate similarity", "warning"),
                               "exact_match", FALSE)
                ELSE AddMetric(SetPassed(AddFeedback(r1, "Low similarity", "error"),
                                         FALSE),
                               "exact_match", FALSE)
          keywords == ExtractKeywords(expected_clean)
          found_keywords == Cardinality({kw \in keywords : Contains(response_clean, kw)})
      IN  IF keywords # {}
          THEN AddMetric(AddScore(r2, "keyword_match",
                                  Frac(found_keywords * 100, Cardinality(keywords))),
                         "keywords_found", <<found_keywords, Cardinality(keywords)>>)
          ELSE r2

\* responses and expected values the evaluator is run on
MaxResponsePieces == 2

Piece ==
    [ P345 |-> <<"3", "4", "5">>,
      TheAnswerIs |-> <<"T", "h", "e", " ", "a", "n", "s", "w", "e", "r", " ", "i", "s", " ">>,
      Dot |-> <<".">>,
      Space |-> <<" ">>,
      Word |-> <<"w", "o", "r", "d">>,
      WordCapital |-> <<"W", "o", "r", "d">>,
      Bold345 |-> <<"<", "b", ">", "3", "4", "5", "<", "/", "b", ">">> ]
ResponsePieces ==
    {Piece.P345, Piece.TheAnswerIs, Piece.Dot, Piece.Space, Piece.Word, Piece.WordCapital, Piece.Bold345}

Responses == {Flatten(ps) : ps \in SeqsUpTo(ResponsePieces, MaxResponsePieces)}

ExpectedConfigs ==
    {None, Some(<<>>), Some(Piece.P345), Some(Piece.Word), Some(Piece.WordCapital \o Piece.Dot),
     Some(Piece.TheAnswerIs \o Piece.Word), Some(Piece.Word \o Piece.Space \o Piece.P345), Some(Piece.Dot)}

\* a caller runs ExpectedResultEvaluator().evaluate(response, test_config)
ExpectedCall(response, test_config) ==
    /\ ex.pc = "idle"
    /\ ex' = [pc |-> "done", response |-> response, test_config |-> test_config,
              result |-> Some(ExpectedResultEvaluate(response, test_config))]
    /\ UNCHANGED <<use_llm_judge, pc, prompt, render_raised, functional_result,
                   judge_reply, quality, overall_score, passed, judge_calls, hy,
                   ht, tg, co, rn, er, ag>>

\* the caller takes the result
ExpectedReturn ==
    /\ ex.pc = "done"
    /\ ex' = ExpectedIdle
    /\ UNCHANGED <<use_llm_judge, pc, prompt, render_raised, functional_result,
                   judge_reply, quality, overall_score, passed, judge_calls, hy,
                   ht, tg, co, rn, er, ag>>

NextExpected ==
    \/ \E response \in Responses, test_config \in ExpectedConfigs :
          ExpectedCall(response, test_config)
    \/ ExpectedReturn

SpecExpected == InitIdle /\ [][NextExpected]_vars


-----------------------------------------------------------------------------
(* Properties of ExpectedResultEvaluator *)

\* an evaluation with a non-empty expected value has returned
ExpectedScored ==
    /\ ex.pc = "done"
    /\ ex.test_config # None
    /\ ex.test_config[1] # <<>>

Hundred == Frac(100, 1)

InTag(text, i) ==
    \E j \in 1..i : text[j] = "<" /\ \A k \in j..(i - 1) : text[k] # ">"
VisibleText(text) ==
    LET keep == [i \in 1..Len(text) |-> IF InTag(text, i) THEN "" ELSE text[i]]
    IN  SelectSeq(keep, LAMBDA c : c # "")
IsMarkup(text) == \E i \in 1..Len(text) : InTag(text, i)

\* C15: a markup response is compared on its visible text with the tags
\* stripped: when the visible text equals the expected value the evaluation
\* is an exact match with score 100.
C15_MarkupComparedOnVisibleText ==
    (/\ ExpectedScored
     /\ IsMarkup(ex.response)
     /\ VisibleText(ex.response) = ex.test_config[1]) =>
        /\ ex.result[1].metrics["exact_match"] = TRUE
        /\ FracEq(GetOverallScore(ex.result[1]), Hundred)

\* the keyword set in the claim's terms: the distinct whitespace-delimited
\* tokens of the normalized expected that are longer than 3 characters
ClaimKeywords(expected) == {w \in Split(NormalizeText(expected)) : Len(w) > 3}

\* C16: for every response and non-empty expected a keyword-overlap value is
\* recorded; it is the fraction of the expected keywords that occur in the
\* normalized response, and it is full whenever the normalized response
\* contains the normalized expected.
C16_KeywordOverlapRecorded ==
    ExpectedScored =>
        LET r == ex.result[1]
            rc == NormalizeText(ex.response)
            kws == ClaimKeywords(ex.test_config[1])
            found == Cardinality({w \in kws : Contains(rc, w)})
        IN  /\ "keyword_match" \in DOMAIN r.scores
            /\ kws # {} =>
                  FracEq(r.scores["keyword_match"], Frac(100 * found, Cardinality(kws)))
            /\ Contains(rc, NormalizeText(ex.test_config[1])) =>
                  FracEq(r.scores["keyword_match"], Hundred)


-----------------------------------------------------------------------------
(* evaluator.py: HTMLCodeEvaluator *)

\* the literals of the patterns, as character sequences
Txt ==
    [ Fence |-> <<Backtick, Backtick, Backtick, "h", "t", "m", "l">>,
      FenceEnd |-> <<"\n", Backtick, Backtick, Backtick>>,
      DoctypeStart |-> <<"<", "!", "d", "o", "c", "t", "y", "p", "e">>,
      HtmlGt |-> <<"h", "t", "m", "l", ">">>,
      HtmlStart |-> <<"<", "h", "t", "m", "l">>,
      HtmlClose |-> <<"<", "/", "h", "t", "m", "l", ">">>,
      TitleClose |-> <<"<", "/", "t", "i", "t", "l", "e", ">">>,
      MetaStart |-> <<"<", "m", "e", "t", "a">>,
      Charset |-> <<"c", "h", "a", "r", "s", "e", "t">>,
      ScriptStart |-> <<"<", "s", "c", "r", "i", "p", "t">>,
      ScriptClose |-> <<"<", "/", "s", "c", "r", "i", "p", "t", ">">>,
      ConsoleLog |-> <<"c", "o", "n", "s", "o", "l", "e", ".", "l", "o", "g", "(">>,
      Debugger |-> <<"d", "e", "b", "u", "g", "g", "e", "r">>,
      Alert |-> <<"a", "l", "e", "r", "t", "(">>,
      Const |-> <<"c", "o", "n", "s", "t">>,
      Let |-> <<"l", "e", "t">>,
      Arrow |-> <<"=", ">">>,
      Slashes |-> <<"/", "/">>,
      Style |-> <<"s", "t", "y", "l", "e", "=">>,
      HttpCdn |-> <<"h", "t", "t", "p", ":", "/", "/", "c", "d", "n">>,
      HttpsCdn |-> <<"h", "t", "t", "p", "s", ":", "/", "/", "c", "d", "n">> ]

\* tag names
Name ==
    [ html |-> <<"h", "t", "m", "l">>,
      head |-> <<"h", "e", "a", "d">>,
      body |-> <<"b", "o", "d", "y">>,
      title |-> <<"t", "i", "t", "l", "e">>,
      meta |-> <<"m", "e", "t", "a">>,
      link |-> <<"l", "i", "n", "k">>,
      img |-> <<"i", "m", "g">>,
      br |-> <<"b", "r">>,
      hr |-> <<"h", "r">>,
      input |-> <<"i", "n", "p", "u", "t">>,
      source |-> <<"s", "o", "u", "r", "c", "e">>,
      header |-> <<"h", "e", "a", "d", "e", "r">>,
      footer |-> <<"f", "o", "o", "t", "e", "r">>,
      nav |-> <<"n", "a", "v">>,
      section |-> <<"s", "e", "c", "t", "i", "o", "n">>,
      article |-> <<"a", "r", "t", "i", "c", "l", "e">>,
      aside |-> <<"a", "s", "i", "d", "e">> ]

LowerText(text) == [i \in 1..Len(text) |-> Lower(text[i])]

\* the least index j >= from with text[j] = c, 0 when there is none
RECURSIVE FirstIndex(_, _, _)
FirstIndex(text, from, c) ==
    IF from > Len(text) THEN 0
    ELSE IF text[from] = c THEN from
    ELSE FirstIndex(text, from + 1, c)

\* the least index j >= from at which pat occurs in text, 0 when there is none
RECURSIVE FirstMatch(_, _, _)
FirstMatch(text, from, pat) ==
    IF from > Len(text) THEN 0
    ELSE IF MatchesAt(text, pat, from) THEN from
    ELSE FirstMatch(text, from + 1, pat)

\* the end of the longest run of word characters that starts at s (s - 1
\* when text[s] is none): a greedy \w+
RECURSIVE WordRunEnd(_, _)
WordRunEnd(text, s) ==
    IF s > Len(text) THEN s - 1
    ELSE IF ~IsWordChar(text[s]) THEN s - 1
    ELSE WordRunEnd(text, s + 1)

\* the same for whitespace: a greedy \s*
RECURSIVE SpaceRunEnd(_, _)
SpaceRunEnd(text, s) ==
    IF s > Len(text) THEN s - 1
    ELSE IF ~IsSpace(text[s]) THEN s - 1
    ELSE SpaceRunEnd(text, s + 1)

\* re.search(r'<name[^>]*>', html, re.IGNORECASE) on the lowered text
HasOpenTag(lowered, name) ==
    \E i \in 1..Len(lowered) :
        /\ MatchesAt(lowered, <<"<">> \o name, i)
        /\ FirstIndex(lowered, i + 1 + Len(name), ">") # 0

\* re.search(r'<!DOCTYPE\s+html>', html, re.IGNORECASE)
HasDoctype(lowered) ==
    \E i \in 1..Len(lowered) :
        /\ MatchesAt(lowered, Txt.DoctypeStart, i)
        /\ LET e == SpaceRunEnd(lowered, i + Len(Txt.DoctypeStart))
           IN  /\ e >= i + Len(Txt.DoctypeStart)
               /\ MatchesAt(lowered, Txt.HtmlGt, e + 1)

\* re.search(r'<title[^>]*>.*?</title>', html, re.IGNORECASE | re.DOTALL)
HasTitle(lowered) ==
    \E i \in 1..Len(lowered) :
        /\ MatchesAt(lowered, <<"<">> \o Name.title, i)
        /\ LET gt == FirstIndex(lowered, i + 1 + Len(Name.title), ">")
           IN  gt # 0 /\ FirstMatch(lowered, gt + 1, Txt.TitleClose) # 0

\* _check_html_structure: the six checks and their points
StructureChecks(html) ==
    LET lowered == LowerText(html)
    IN  << [holds |-> HasDoctype(lowered), points |-> 20],
           [holds |-> HasOpenTag(lowered, Name.html), points |-> 15],
           [holds |-> HasOpenTag(lowered, Name.head), points |-> 15],
           [holds |-> HasOpenTag(lowered, Name.body), points |-> 15],
           [holds |-> HasTitle(lowered), points |-> 15],
           [holds |-> Contains(lowered, Txt.HtmlClose), points |-> 20] >>

RECURSIVE SumPoints(_)
SumPoints(checks) ==
    IF checks = <<>> THEN 0
    ELSE (IF Head(checks).holds THEN Head(checks).points ELSE 0) + SumPoints(Tail(checks))

CheckHtmlStructure(html) == SumPoints(StructureChecks(html))

\* re.finditer over r'<(/?)(\w+)[^>]*>' (with_closing) or r'<(\w+)[^>]*>':
\* the successive non-overlapping matches from position from on
RECURSIVE FindTags(_, _, _)
FindTags(text, from, with_closing) ==
    LET lt == FirstIndex(text, from, "<")
    IN  IF lt = 0 THEN <<>>
        ELSE LET is_closing == with_closing /\ lt < Len(text) /\ text[lt + 1] = "/"
                 s == IF is_closing THEN lt + 2 ELSE lt + 1
                 e == WordRunEnd(text, s)
                 gt == IF e >= s THEN FirstIndex(text, e + 1, ">") ELSE 0
             IN  IF gt = 0 THEN FindTags(text, lt + 1, with_closing)
                 ELSE <<[is_closing |-> is_closing, tag_name |-> SubSeq(text, s, e)]>>
                      \o FindTags(text, gt + 1, with_closing)

\* re.findall(r'</(\w+)>', html), lowered: the names of the closing tags
ClosingTagNames(text) ==
    {LowerText(SubSeq(text, i + 2, WordRunEnd(text, i + 2))) :
        i \in {j \in 1..(Len(text) - 1) :
                /\ text[j] = "<" /\ text[j + 1] = "/"
                /\ LET e == WordRunEnd(text, j + 2)
                   IN  e >= j + 2 /\ e < Len(text) /\ text[e + 1] = ">"}}

\* re.search(r'<meta[^>]*charset[^>]*>', html, re.IGNORECASE)
HasMetaCharset(lowered) ==
    \E i \in 1..Len(lowered) :
        /\ MatchesAt(lowered, Txt.MetaStart, i)
        /\ \E c \in (i + Len(Txt.MetaStart))..Len(lowered) :
              /\ MatchesAt(lowered, Txt.Charset, c)
              /\ \A k \in (i + Len(Txt.MetaStart))..(c - 1) : lowered[k] # ">"
              /\ FirstIndex(lowered, c + Len(Txt.Charset), ">") # 0

RequiredSelfClosing == {Name.meta, Name.link, Name.img, Name.br, Name.hr, Name.input}

\* _check_required_elements; the loop deducts 5 for every opening tag whose
\* name is not self-closing and is the name of no closing tag
CheckRequiredElements(html) ==
    LET opening_tags == FindTags(html, 1, FALSE)
        closing_tags == ClosingTagNames(html)
        unclosed == {i \in 1..Len(opening_tags) :
                        /\ LowerText(opening_tags[i].tag_name) \notin RequiredSelfClosing
                        /\ LowerText(opening_tags[i].tag_name) \notin closing_tags}
        score == 100 - (IF HasMetaCharset(LowerText(html)) THEN 0 ELSE 20)
                     - 5 * Cardinality(unclosed)
    IN  IF score < 0 THEN 0 ELSE score

\* re.findall(r'<script[^>]*>(.*?)</script>', html, DOTALL | IGNORECASE)
RECURSIVE ScriptBlocks(_, _)
ScriptBlocks(html, from) ==
    LET lowered == LowerText(html)
        p == FirstMatch(lowered, from, Txt.ScriptStart)
    IN  IF p = 0 THEN <<>>
        ELSE LET gt == FirstIndex(html, p + Len(Txt.ScriptStart), ">")
                 k == IF gt = 0 THEN 0 ELSE FirstMatch(lowered, gt + 1, Txt.ScriptClose)
             IN  IF k = 0 THEN ScriptBlocks(html, p + 1)
                 ELSE <<SubSeq(html, gt + 1, k - 1)>>
                      \o ScriptBlocks(html, k + Len(Txt.ScriptClose))

\* '\n'.join(js_blocks)
RECURSIVE JoinLines(_)
JoinLines(blocks) ==
    IF blocks = <<>> THEN <<>>
    ELSE IF Len(blocks) = 1 THEN Head(blocks)
    ELSE Head(blocks) \o <<"\n">> \o JoinLines(Tail(blocks))

\* len(re.findall(pat, text, re.IGNORECASE)) for a literal pat that cannot
\* overlap itself
CountMatches(lowered, pat) ==
    Cardinality({p \in 1..Len(lowered) : MatchesAt(lowered, pat, p)})

\* len(re.findall(r'console\.log\((?![^)]*//)', js_code, re.IGNORECASE))
ConsoleLogCount(lowered) ==
    Cardinality({p \in 1..Len(lowered) :
        /\ MatchesAt(lowered, Txt.ConsoleLog, p)
        /\ ~\E q \in (p + Len(Txt.ConsoleLog))..Len(lowered) :
                /\ MatchesAt(lowered, Txt.Slashes, q)
                /\ \A k \in (p + Len(Txt.ConsoleLog))..(q - 1) : lowered[k] # ")"})

\* re.search(r'(const|let)\s+\w+', js_code)
HasModernDeclaration(text) ==
    \E p \in 1..Len(text), kw \in {Txt.Const, Txt.Let} :
        /\ MatchesAt(text, kw, p)
        /\ LET e == SpaceRunEnd(text, p + Len(kw))
           IN  /\ e >= p + Len(kw)
               /\ e < Len(text)
               /\ IsWordChar(text[e + 1])

Cap(n, m) == IF n < m THEN n ELSE m

\* _check_javascript
CheckJavascript(html) ==
    LET js_blocks == ScriptBlocks(html, 1)
    IN  IF js_blocks = <<>> THEN 100
        ELSE LET js_code == JoinLines(js_blocks)
                 lowered == LowerText(js_code)
                 score == 100 - 5 * Cap(ConsoleLogCount(lowered), 3)
                              - 10 * Cap(CountMatches(lowered, Txt.Debugger), 3)
                              - 5 * Cap(CountMatches(lowered, Txt.Alert), 3)
                              + (IF HasModernDeclaration(js_code) THEN 5 ELSE 0)
                              + (IF Contains(js_code, Txt.Arrow) THEN 5 ELSE 0)
             IN  IF score < 0 THEN 0 ELSE Cap(score, 100)

SemanticTags == {Name.header, Name.footer, Name.nav, Name.section, Name.article, Name.aside}

\* _check_best_practices
CheckBestPractices(html) ==
    LET lowered == LowerText(html)
        inline_styles == CountMatches(lowered, Txt.Style)
        score == 100 - Cap(inline_styles * 2, 20)
                     + (IF Contains(lowered, Txt.HttpCdn) \/ Contains(lowered, Txt.HttpsCdn)
                        THEN 10 ELSE 0)
                     + 2 * Cardinality({tag \in SemanticTags : HasOpenTag(lowered, tag)})
    IN  Cap(score, 100)

SyntaxSelfClosing ==
    {Name.meta, Name.link, Name.img, Name.br, Name.hr, Name.input, Name.source}

Top(stack) == stack[Len(stack)]
Pop(stack) == SubSeq(stack, 1, Len(stack) - 1)

\* one pass of the loop body of _validate_html_syntax (lines 332-350) over
\* the match tag, on st = [tag_stack, errors]
ProcessTagForgivesStrayClosing(st, tag) ==
    LET tag_name == LowerText(tag.tag_name)
    IN  IF tag_name \in SyntaxSelfClosing THEN st
        ELSE IF tag.is_closing
        THEN IF st.tag_stack = <<>>
             THEN st
             ELSE IF Top(st.tag_stack) # tag_name
             THEN [tag_stack |-> Pop(st.tag_stack),
                   errors |-> Append(st.errors,
                      [kind |-> "Mismatched tags", tags |-> <<Top(st.tag_stack), tag_name>>])]
             ELSE [st EXCEPT !.tag_stack = Pop(@)]
        ELSE [st EXCEPT !.tag_stack = Append(@, tag_name)]

ProcessTagKeepsMismatched(st, tag) ==
    LET tag_name == LowerText(tag.tag_name)
    IN  IF tag_name \in SyntaxSelfClosing THEN st
        ELSE IF tag.is_closing
        THEN IF st.tag_stack = <<>>
             THEN [st EXCEPT !.errors = Append(@,
                      [kind |-> "Closing tag without opening tag", tags |-> <<tag_name>>])]
             ELSE IF Top(st.tag_stack) # tag_name
             THEN [st EXCEPT !.errors = Append(@,
                      [kind |-> "Mismatched tags", tags |-> <<Top(st.tag_stack), tag_name>>])]
             ELSE [st EXCEPT !.tag_stack = Pop(@)]
        ELSE [st EXCEPT !.tag_stack = Append(@, tag_name)]

ProcessTag(st, tag) ==
    LET tag_name == LowerText(tag.tag_name)
    IN  IF tag_name \in SyntaxSelfClosing THEN st
        ELSE IF tag.is_closing
        THEN IF st.tag_stack = <<>>
             THEN [st EXCEPT !.errors = Append(@,
                      [kind |-> "Closing tag without opening tag", tags |-> <<tag_name>>])]
             ELSE IF Top(st.tag_stack) # tag_name
             THEN [tag_stack |-> Pop(st.tag_stack),
                   errors |-> Append(st.errors,
                      [kind |-> "Mismatched tags", tags |-> <<Top(st.tag_stack), tag_name>>])]
             ELSE [st EXCEPT !.tag_stack = Pop(@)]
        ELSE [st EXCEPT !.tag_stack = Append(@, tag_name)]

\* lines 353-354: the names left on the stack are reported in one error
ReportUnclosed(st) ==
    IF st.tag_stack # <<>>
    THEN Append(st.errors, [kind |-> "Unclosed tags", tags |-> st.tag_stack])
    ELSE st.errors

RECURSIVE ProcessTags(_, _)
ProcessTags(st, tags) ==
    IF tags = <<>> THEN st ELSE ProcessTags(ProcessTag(st, Head(tags)), Tail(tags))

\* _validate_html_syntax: the list of errors (is_valid is errors = <<>>)
ValidateHtmlSyntax(html) ==
    ReportUnclosed(ProcessTags([tag_stack |-> <<>>, errors |-> <<>>],
                               FindTags(html, 1, TRUE)))

\* the newlines that the \n of r'```html\s*\n' can take after a fence at p
FenceNewlines(response, p) ==
    LET s == p + Len(Txt.Fence)
    IN  {n \in s..SpaceRunEnd(response, s) : response[n] = "\n"}

Least(S) == CHOOSE x \in S : \A y \in S : x <= y
Greatest(S) == CHOOSE x \in S : \A y \in S : x >= y

ExtractHtmlUnclosedFirst(response) ==
    LET lowered == LowerText(response)
        fences == {p \in 1..Len(response) : MatchesAt(lowered, Txt.Fence, p)}
        Closing(p) == {n \in FenceNewlines(response, p) :
                          FirstMatch(response, n + 1, Txt.FenceEnd) # 0}
        closed == {p \in fences : Closing(p) # {}}
        truncated == {p \in fences : FenceNewlines(response, p) # {}}
        response_stripped == Strip(response)
    IN  IF truncated # {}
        THEN LET n == Greatest(FenceNewlines(response, Least(truncated)))
             IN  Some(Strip(SubSeq(response, n + 1, Len(response))))
        ELSE IF closed # {}
        THEN LET n == Greatest(Closing(Least(closed)))
             IN  Some(Strip(SubSeq(response, n + 1,
                                   FirstMatch(response, n + 1, Txt.FenceEnd) - 1)))
        ELSE IF \/ MatchesAt(LowerText(response_stripped), Txt.DoctypeStart, 1)
                \/ MatchesAt(LowerText(response_stripped), Txt.HtmlStart, 1)
        THEN Some(response_stripped)
        ELSE None

\* _extract_html: None, or Some(text)
ExtractHtml(response) ==
    LET lowered == LowerText(response)
        fences == {p \in 1..Len(response) : MatchesAt(lowered, Txt.Fence, p)}
        Closing(p) == {n \in FenceNewlines(response, p) :
                          FirstMatch(response, n + 1, Txt.FenceEnd) # 0}
        closed == {p \in fences : Closing(p) # {}}
        truncated == {p \in fences : FenceNewlines(response, p) # {}}
        response_stripped == Strip(response)
    IN  IF closed # {}
        THEN LET n == Greatest(Closing(Least(closed)))
             IN  Some(Strip(SubSeq(response, n + 1,
                                   FirstMatch(response, n + 1, Txt.FenceEnd) - 1)))
        ELSE IF truncated # {}
        THEN LET n == Greatest(FenceNewlines(response, Least(truncated)))
             IN  Some(Strip(SubSeq(response, n + 1, Len(response))))
        ELSE IF \/ MatchesAt(LowerText(response_stripped), Txt.DoctypeStart, 1)
                \/ MatchesAt(LowerText(response_stripped), Txt.HtmlStart, 1)
        THEN Some(response_stripped)
        ELSE None

\* a feedback message of the HTML evaluator: its fixed text and the tag
\* names formatted into it
Msg(text, tags) == [text |-> text, tags |-> tags]

RECURSIVE AddErrorFeedback(_, _)
AddErrorFeedback(result, errors) ==
    IF errors = <<>> THEN result
    ELSE AddErrorFeedback(
            AddFeedback(result, Msg(Head(errors).kind, Head(errors).tags), "warning"),
            Tail(errors))

\* HTMLCodeEvaluator.evaluate
HtmlCodeEvaluate(response) ==
    LET html_content == ExtractHtml(response)
    IN  IF html_content = None \/ html_content[1] = <<>>
        THEN AddFeedback(EmptyResult, Msg("No HTML code found in response", <<>>), "info")
        ELSE
          LET html == html_content[1]
              r1 == AddScore(EmptyResult, "html_structure", Frac(CheckHtmlStructure(html), 1))
              r2 == AddScore(r1, "required_elements", Frac(CheckRequiredElements(html), 1))
              r3 == AddScore(r2, "javascript_quality", Frac(CheckJavascript(html), 1))
              r4 == AddScore(r3, "best_practices", Frac(CheckBestPractices(html), 1))
              validation_errors == ValidateHtmlSyntax(html)
              r5 == AddMetric(r4, "html_valid", validation_errors = <<>>)
              r6 == IF validation_errors = <<>>
                    THEN AddFeedback(r5, Msg("HTML syntax is valid", <<>>), "success")
                    ELSE AddErrorFeedback(
                            AddFeedback(r5, Msg("HTML validation issues found", <<>>), "warning"),
                            SubSeq(validation_errors, 1, Cap(Len(validation_errors), 3)))
          IN  IF FracLess(GetOverallScore(r6), Frac(60, 1))
              THEN AddFeedback(SetPassed(r6, FALSE),
                               Msg("Code quality below threshold", <<>>), "error")
              ELSE AddFeedback(r6, Msg("Code quality acceptable", <<>>), "success")

\* the documents the evaluator is run on: the complete document with at
\* most MaxRemoved of its pieces left out and at most MaxExtra further
\* pieces put in front of the body content
MaxRemoved == 1
MaxExtra == 1

Doc ==
    [ Doctype |-> <<"<", "!", "D", "O", "C", "T", "Y", "P", "E", " ", "h", "t", "m", "l", ">">>,
      Html |-> <<"<", "h", "t", "m", "l", ">">>,
      Head |-> <<"<", "h", "e", "a", "d", ">">>,
      Title |-> <<"<", "t", "i", "t", "l", "e", ">", "T">>,
      TitleClose |-> <<"<", "/", "t", "i", "t", "l", "e", ">">>,
      HeadClose |-> <<"<", "/", "h", "e", "a", "d", ">">>,
      Body |-> <<"<", "b", "o", "d", "y", ">">>,
      Content |-> <<"3", "4", "5", " ", "w", "o", "r", "d">>,
      BodyClose |-> <<"<", "/", "b", "o", "d", "y", ">">>,
      HtmlClose |-> <<"<", "/", "h", "t", "m", "l", ">">>,
      Meta |-> <<"<", "m", "e", "t", "a", " ", "c", "h", "a", "r", "s", "e", "t", "=", "u", "t", "f", "8", ">">>,
      Header |-> <<"<", "h", "e", "a", "d", "e", "r", ">">>,
      Div |-> <<"<", "d", "i", "v", ">">>,
      Br |-> <<"<", "b", "r", ">">>,
      Script |-> <<"<", "s", "c", "r", "i", "p", "t", ">", "a", "l", "e", "r", "t", "(", "1", ")", "<", "/", "s", "c", "r", "i", "p", "t", ">">>,
      FenceOpen |-> <<Backtick, Backtick, Backtick, "h", "t", "m", "l", "\n">>,
      FenceClose |-> <<"\n", Backtick, Backtick, Backtick>>,
      FenceUpper |-> <<Backtick, Backtick, Backtick, "H", "T", "M", "L", " ", "\n">>,
      FenceBare |-> <<Backtick, Backtick, Backtick, "h", "t", "m", "l">>,
      Paragraph |-> <<"<", "p", ">", "x">>,
      HtmlUpper |-> <<" ", "<", "H", "T", "M", "L", ">">> ]

DocHead == <<Doc.Doctype, Doc.Html, Doc.Head, Doc.Title, Doc.TitleClose, Doc.HeadClose, Doc.Body>>
DocTail == <<Doc.Content, Doc.BodyClose, Doc.HtmlClose>>
DocExtras == {Doc.Meta, Doc.Header, Doc.Div, Doc.Br, Doc.Script, Doc.Body}

\* the pieces of part whose index is not in removed
Keep(part, removed) ==
    Flatten(SelectSeq([i \in 1..Len(part) |-> IF i \in removed THEN <<>> ELSE part[i]],
                      LAMBDA piece : piece # <<>>))

Documents ==
    {Keep(DocHead, removed) \o Flatten(extras)
        \o Keep(DocTail, {i - Len(DocHead) : i \in removed}) :
        removed \in {S \in SUBSET (1..(Len(DocHead) + Len(DocTail))) :
                        Cardinality(S) <= MaxRemoved},
        extras \in SeqsUpTo(DocExtras, MaxExtra)}

\* a document alone, in a closed ```html block, or in a block cut off
\* before its closing fence
HtmlResponses ==
    UNION {{doc, Doc.FenceOpen \o doc \o Doc.FenceClose, Doc.FenceOpen \o doc} : doc \in Documents}

\* a caller runs HTMLCodeEvaluator().evaluate(response, test_config)
HtmlCall(response) ==
    /\ ht.pc = "idle"
    /\ ht' = [pc |-> "done", response |-> response,
              result |-> Some(HtmlCodeEvaluate(response))]
    /\ UNCHANGED <<use_llm_judge, pc, prompt, render_raised, functional_result,
                   judge_reply, quality, overall_score, passed, judge_calls, hy,
                   ex, tg, co, rn, er, ag>>

\* the caller takes the result
HtmlReturn ==
    /\ ht.pc = "done"
    /\ ht' = HtmlIdle
    /\ UNCHANGED <<use_llm_judge, pc, prompt, render_raised, functional_result,
                   judge_reply, quality, overall_score, passed, judge_calls, hy,
                   ex, tg, co, rn, er, ag>>

NextHtml ==
    \/ \E response \in HtmlResponses : HtmlCall(response)
    \/ HtmlReturn

SpecHtml == InitIdle /\ [][NextHtml]_vars

(***************************************************************************)
(* HTMLCodeEvaluator._extract_html on its own (SpecExtract)                *)
(***************************************************************************)

MaxExtractPieces == 4

\* what a response is made of: html fences with their line end (in capitals,
\* with a space) and without it, closing fences, document markers, markup and
\* line breaks
ExtractPieces ==
    {Doc.FenceUpper, Doc.FenceBare, Doc.FenceClose,
     Doc.Doctype, Doc.HtmlUpper, Doc.Paragraph, <<"\n">>}

ExtractResponses == {Flatten(s) : s \in SeqsUpTo(ExtractPieces, MaxExtractPieces)}

\* line 165: html_content = self._extract_html(response)
ExtractCall(response) ==
    /\ ht.pc = "idle"
    /\ ht' = [pc |-> "extracted", response |-> response,
              result |-> ExtractHtml(response)]
    /\ UNCHANGED <<use_llm_judge, pc, prompt, render_raised, functional_result,
                   judge_reply, quality, overall_score, passed, judge_calls, hy,
                   ex, tg, co, rn, er, ag>>

\* the caller has looked at the extracted text
ExtractReturn ==
    /\ ht.pc = "extracted"
    /\ ht' = HtmlIdle
    /\ UNCHANGED <<use_llm_judge, pc, prompt, render_raised, functional_result,
                   judge_reply, quality, overall_score, passed, judge_calls, hy,
                   ex, tg, co, rn, er, ag>>

NextExtract ==
    \/ \E response \in ExtractResponses : ExtractCall(response)
    \/ ExtractReturn

SpecExtract == InitIdle /\ [][NextExtract]_vars



-----------------------------------------------------------------------------
(* Properties of HTMLCodeEvaluator *)

\* an evaluation that found HTML in the response has returned
HtmlScored == ht.pc = "done" /\ ht.result[1].scores # <<>>
HtmlText == ExtractHtml(ht.response)[1]

\* the document has an opening tag with exactly this name
HasTagNamed(html, name) ==
    LET tags == FindTags(html, 1, FALSE)
    IN  \E i \in 1..Len(tags) : LowerText(tags[i].tag_name) = name

\* the six structure checks in the claim's terms
ClaimChecks(html) ==
    << [holds |-> HasDoctype(LowerText(html)), points |-> 20],
       [holds |-> HasTagNamed(html, Name.html), points |-> 15],
       [holds |-> HasTagNamed(html, Name.head), points |-> 15],
       [holds |-> HasTagNamed(html, Name.body), points |-> 15],
       [holds |-> HasTagNamed(html, Name.title)
                    /\ Contains(LowerText(html), Txt.TitleClose), points |-> 15],
       [holds |-> Contains(LowerText(html), Txt.HtmlClose), points |-> 20] >>

Issues(result) ==
    {i \in 1..Len(result.feedback) : result.feedback[i].severity \in {"warning", "error"}}

\* C17: the structure score is the sum of the weights of the checks that
\* hold (doctype 20, <html> 15, <head> 15, <body> 15, <title>...</title> 15,
\* </html> 20); it is 100 exactly when all six hold; a complete, properly
\* nested document gets 100 with no issue reported.
C17_StructureScoreIsSumOfChecks ==
    HtmlScored =>
        LET checks == ClaimChecks(HtmlText)
            all == \A i \in 1..Len(checks) : checks[i].holds
            score == ht.result[1].scores["html_structure"]
        IN  /\ score = Frac(SumPoints(checks), 1)
            /\ (score = Frac(100, 1)) <=> all
            /\ (all /\ ValidateHtmlSyntax(HtmlText) = <<>>) =>
                  (score = Frac(100, 1) /\ Issues(ht.result[1]) = {})

DoctypeWord == SubSeq(Txt.DoctypeStart, 3, Len(Txt.DoctypeStart))

\* the feedback message names the tag: none of the fixed texts of
\* HTMLCodeEvaluator.evaluate holds a tag name, so a name can only be one of
\* those formatted into the message
NamesTag(message, name) == \E i \in 1..Len(message.tags) : message.tags[i] = name

\* C18: a document without a doctype declaration gets a structure score
\* below 100 and at least one feedback message that contains "DOCTYPE".
C18_MissingDoctypeIsNamed ==
    (HtmlScored /\ ~HasDoctype(LowerText(HtmlText))) =>
        /\ FracLess(ht.result[1].scores["html_structure"], Frac(100, 1))
        /\ \E i \in 1..Len(ht.result[1].feedback) :
              NamesTag(ht.result[1].feedback[i].message, DoctypeWord)

\* U in the claim's terms: over the names that are not exempt, the openings
\* that no closing tag of the same name answers
UnclosedCount(html) ==
    LET tags == FindTags(html, 1, TRUE)
        names == {LowerText(tags[i].tag_name) : i \in 1..Len(tags)} \ RequiredSelfClosing
        Opened(n) == Cardinality({i \in 1..Len(tags) :
                        ~tags[i].is_closing /\ LowerText(tags[i].tag_name) = n})
        Closed(n) == Cardinality({i \in 1..Len(tags) :
                        tags[i].is_closing /\ LowerText(tags[i].tag_name) = n})
    IN  SumOver([n \in names |-> IF Opened(n) > Closed(n) THEN Opened(n) - Closed(n) ELSE 0],
                names)

\* C19: the required-elements score is max(0, 100 - 20*[no charset meta
\* declaration] - 5*U), U the number of tags left unclosed (meta, link, img,
\* br, hr, input exempt); a second opening of a tag closed once counts as one.
C19_RequiredElementsScore ==
    HtmlScored =>
        LET raw == 100 - (IF HasMetaCharset(LowerText(HtmlText)) THEN 0 ELSE 20)
                       - 5 * UnclosedCount(HtmlText)
        IN  ht.result[1].scores["required_elements"] = Frac(IF raw < 0 THEN 0 ELSE raw, 1)


(***************************************************************************)
(* HTMLCodeEvaluator._validate_html_syntax, one tag per step (SpecTags)    *)
(***************************************************************************)

MaxTags == 4

Tag ==
    [ OpenA |-> <<"<", "a", ">">>,
      CloseA |-> <<"<", "/", "a", ">">>,
      OpenB |-> <<"<", "B", " ", "i", "d", "=", "x", ">">>,
      CloseB |-> <<"<", "/", "b", ">">>,
      Br |-> <<"<", "b", "r", ">">> ]

TagPieces == {Tag.OpenA, Tag.CloseA, Tag.OpenB, Tag.CloseB, Tag.Br}

\* the documents handed to _validate_html_syntax
TagDocuments == {Flatten(s) : s \in SeqsUpTo(TagPieces, MaxTags)}

TagsUnchanged ==
    UNCHANGED <<use_llm_judge, pc, prompt, render_raised, functional_result,
                judge_reply, quality, overall_score, passed, judge_calls, hy,
                ex, ht, co, rn, er, ag>>

\* lines 326-329: errors = [], tag_stack = [], the iterator over the matches
TagsCall(html) ==
    /\ tg.pc = "idle"
    /\ tg' = [pc |-> "loop", html |-> html, tags |-> FindTags(html, 1, TRUE),
              pos |-> 0, tag_stack |-> <<>>, errors |-> <<>>]
    /\ TagsUnchanged

\* lines 332-350: the loop body on the next match
TagsStep ==
    /\ tg.pc = "loop"
    /\ tg.pos < Len(tg.tags)
    /\ LET st == ProcessTag([tag_stack |-> tg.tag_stack, errors |-> tg.errors],
                            tg.tags[tg.pos + 1])
       IN  tg' = [tg EXCEPT !.pos = @ + 1,
                            !.tag_stack = st.tag_stack,
                            !.errors = st.errors]
    /\ TagsUnchanged

\* lines 352-354: the iterator is exhausted; what is left on the stack is reported
TagsFinish ==
    /\ tg.pc = "loop"
    /\ tg.pos = Len(tg.tags)
    /\ tg' = [tg EXCEPT !.pc = "done",
                        !.errors = ReportUnclosed([tag_stack |-> tg.tag_stack,
                                                   errors |-> tg.errors])]
    /\ TagsUnchanged

\* line 356: return len(errors) == 0, errors
TagsReturn ==
    /\ tg.pc = "done"
    /\ tg' = TagsIdle
    /\ TagsUnchanged

NextTags ==
    \/ \E html \in TagDocuments : TagsCall(html)
    \/ TagsStep
    \/ TagsFinish
    \/ TagsReturn

SpecTags == InitIdle /\ [][NextTags]_vars

(***************************************************************************)
(* Properties of the tag matcher                                           *)
(***************************************************************************)

\* the step of the loop that handles the next tag
TagHandled == tg.pc = "loop" /\ tg'.pc = "loop" /\ tg'.pos = tg.pos + 1

NextTagName == LowerText(tg.tags[tg.pos + 1].tag_name)

LastError == tg'.errors[Len(tg'.errors)]

OneMoreError(kind) ==
    /\ Len(tg'.errors) = Len(tg.errors) + 1
    /\ SubSeq(tg'.errors, 1, Len(tg.errors)) = tg.errors
    /\ LastError.kind = kind

\* what the claim says the matcher does with one tag that is not skipped
StackDiscipline ==
    IF ~tg.tags[tg.pos + 1].is_closing
    THEN tg'.tag_stack = Append(tg.tag_stack, NextTagName) /\ tg'.errors = tg.errors
    ELSE IF tg.tag_stack = <<>>
    THEN tg'.tag_stack = <<>> /\ OneMoreError("Closing tag without opening tag")
    ELSE IF Top(tg.tag_stack) = NextTagName
    THEN tg'.tag_stack = Pop(tg.tag_stack) /\ tg'.errors = tg.errors
    ELSE tg'.tag_stack = Pop(tg.tag_stack) /\ OneMoreError("Mismatched tags")

\* the end of the pass: reached only after the last tag, and the names left on
\* the stack are all reported as unclosed
PassEnds ==
    (tg.pc = "loop" /\ tg'.pc = "done") =>
        /\ tg.pos = Len(tg.tags)
        /\ IF tg.tag_stack = <<>>
           THEN tg'.errors = tg.errors
           ELSE OneMoreError("Unclosed tags") /\ LastError.tags = tg.tag_stack

\* the pass is never abandoned: from the loop the only exits are the next tag
\* and the end of the input
PassContinues ==
    tg.pc = "loop" =>
        \/ TagHandled
        \/ tg'.pc = "done"
        \/ tg' = tg

\* C20: the tag matcher processes tags left to right with a stack: an opening
\* tag is pushed; a closing tag equal to the top pops it with no error; a
\* closing tag met with an empty stack records a "closing tag without opening
\* tag" error and leaves the stack empty; a closing tag different from the top
\* records a mismatch error and still pops the top; after the last tag every
\* name remaining on the stack is reported as unclosed; the pass always runs to
\* the end of the input.  As stated, for every tag.
C20_EveryTagOnStack ==
    [][/\ TagHandled => StackDiscipline
       /\ PassEnds
       /\ PassContinues]_vars

\* C20 (amended): the same, except that the tags named meta, link, img, br,
\* hr, input and source, opening or closing, are skipped: they change neither
\* the stack nor the errors.
C20_TagMatcherStack ==
    [][/\ TagHandled =>
            IF NextTagName \in {Name.meta, Name.link, Name.img, Name.br,
                                Name.hr, Name.input, Name.source}
            THEN tg'.tag_stack = tg.tag_stack /\ tg'.errors = tg.errors
            ELSE StackDiscipline
       /\ PassEnds
       /\ PassContinues]_vars

\* a finished pass that skipped a <br>, popped a mismatched top and reported
\* the names left on the stack
C20_Witness ==
    /\ tg.pc = "done"
    /\ tg.pos = Len(tg.tags)
    /\ \E i \in 1..Len(tg.tags) : LowerText(tg.tags[i].tag_name) = Name.br
    /\ \E i \in 1..Len(tg.errors) : tg.errors[i].kind = "Mismatched tags"
    /\ tg.errors[Len(tg.errors)].kind = "Unclosed tags"

\* the tags of a sequence that are not exempt, with their names in lower case
ClaimRelevant(tags) ==
    LET Counts(i) == LowerText(tags[i].tag_name) \notin
                      {Name.meta, Name.link, Name.img, Name.br,
                       Name.hr, Name.input, Name.source}
        F[i \in 0..Len(tags)] ==
            IF i = 0 THEN <<>>
            ELSE IF Counts(i)
            THEN Append(F[i - 1], [is_closing |-> tags[i].is_closing,
                                   tag_name |-> LowerText(tags[i].tag_name)])
            ELSE F[i - 1]
    IN  F[Len(tags)]

\* properly nested: empty, or an opening tag directly followed by its closing
\* tag around and beside properly nested sequences
RECURSIVE ClaimNested(_)
ClaimNested(tags) ==
    \/ tags = <<>>
    \/ \E i \in 1..(Len(tags) - 1) :
          /\ ~tags[i].is_closing
          /\ tags[i + 1].is_closing
          /\ tags[i].tag_name = tags[i + 1].tag_name
          /\ ClaimNested(SubSeq(tags, 1, i - 1) \o SubSeq(tags, i + 2, Len(tags)))

\* the opening tags of a sequence, in order, less one entry (the latest) per
\* closing tag that arrived while some entry was left
ClaimStack(tags) ==
    LET F[i \in 0..Len(tags)] ==
            IF i = 0 THEN <<>>
            ELSE IF ~tags[i].is_closing THEN Append(F[i - 1], tags[i].tag_name)
            ELSE IF F[i - 1] = <<>> THEN <<>>
            ELSE SubSeq(F[i - 1], 1, Len(F[i - 1]) - 1)
    IN  F[Len(tags)]

\* C30: for every sequence of opening and closing tags (ignoring the exempt
\* self-closing names) _validate_html_syntax returns is_valid = true if and
\* only if the sequence is properly nested, and at every step the stack holds,
\* in order, the opening tags seen so far minus one entry per closing tag that
\* arrived while the stack was non-empty.
C30_ValidIffNested ==
    /\ tg.pc = "done" => ((tg.errors = <<>>) <=> ClaimNested(ClaimRelevant(tg.tags)))
    /\ tg.pc \in {"loop", "done"} =>
          tg.tag_stack = ClaimStack(ClaimRelevant(SubSeq(tg.tags, 1, tg.pos)))

\* a finished pass over a properly nested sequence with an inner pair and a
\* name written in capitals
C30_Witness ==
    /\ tg.pc = "done"
    /\ tg.errors = <<>>
    /\ Len(ClaimRelevant(tg.tags)) = 4
    /\ ~tg.tags[2].is_closing
    /\ \E i \in 1..Len(tg.tags) : tg.tags[i].tag_name # LowerText(tg.tags[i].tag_name)


(***************************************************************************)
(* QualityEvaluator                                                        *)
(***************************************************************************)

QualityTxt ==
    [ Backticks |-> <<Backtick, Backtick, Backtick>>,
      ParagraphBreak |-> <<"\n", "\n">>,
      Conclusion |-> <<"c", "o", "n", "c", "l", "u", "s", "i", "o", "n">>,
      Conclude |-> <<"c", "o", "n", "c", "l", "u", "d", "e">>,
      Summary |-> <<"s", "u", "m", "m", "a", "r", "y">> ]

\* _evaluate_length
EvaluateLength(response) ==
    LET length == Len(response)
    IN  IF length < 10 THEN 0
        ELSE IF length < 50 THEN 30
        ELSE IF length < 200 THEN 70
        ELSE IF length < 5000 THEN 100
        ELSE IF length < 10000 THEN 90
        ELSE 80

\* $ under re.MULTILINE after position e: the end of the text or of a line
AtLineEnd(text, e) == e = Len(text) \/ text[e + 1] = "\n"

\* ^ under re.MULTILINE at position i: the start of the text or of a line
AtLineStart(text, i) == i = 1 \/ text[i - 1] = "\n"

\* re.search(r'[.!?]$', response, re.MULTILINE)
EndsLineWithPunctuation(text) ==
    \E i \in 1..Len(text) : text[i] \in {".", "!", "?"} /\ AtLineEnd(text, i)

\* re.search(pat + r'\s*$', response, re.IGNORECASE | re.MULTILINE) for a
\* literal pat, on the lowered text
EndsLineWith(lowered, pat) ==
    \E i \in 1..Len(lowered) :
        /\ MatchesAt(lowered, pat, i)
        /\ \E e \in (i + Len(pat) - 1)..Len(lowered) :
              /\ \A k \in (i + Len(pat))..e : IsSpace(lowered[k])
              /\ AtLineEnd(lowered, e)

\* re.search(r'\bword\b', response, re.IGNORECASE) on the lowered text
HasWholeWord(lowered, word) ==
    \E i \in 1..Len(lowered) :
        /\ MatchesAt(lowered, word, i)
        /\ i = 1 \/ ~IsWordChar(lowered[i - 1])
        /\ i + Len(word) > Len(lowered) \/ ~IsWordChar(lowered[i + Len(word)])

\* _evaluate_completeness: the base score plus the points of the first
\* indicator that matches
EvaluateCompleteness(response) ==
    LET lowered == LowerText(response)
        score == 40 + (IF EndsLineWithPunctuation(response) THEN 30
                       ELSE IF EndsLineWith(lowered, Txt.HtmlClose) THEN 30
                       ELSE IF EndsLineWith(lowered, QualityTxt.Backticks) THEN 30
                       ELSE IF \/ HasWholeWord(lowered, QualityTxt.Conclusion)
                               \/ HasWholeWord(lowered, QualityTxt.Conclude) THEN 20
                       ELSE IF HasWholeWord(lowered, QualityTxt.Summary) THEN 15
                       ELSE 0)
    IN  Cap(score, 100)

\* re.search(r'^[\-\*\d]+[\.\)]\s', response, re.MULTILINE)
HasListItem(text) ==
    \E i \in 1..Len(text) :
        /\ AtLineStart(text, i)
        /\ \E e \in i..(Len(text) - 2) :
              /\ \A k \in i..e : text[k] \in {"-", "*"} \cup Digits
              /\ text[e + 1] \in {".", ")"}
              /\ IsSpace(text[e + 2])

\* re.search(r'^#+\s', response, re.MULTILINE)
HasHeaderLine(text) ==
    \E i \in 1..Len(text) :
        /\ AtLineStart(text, i)
        /\ \E e \in i..(Len(text) - 1) :
              /\ \A k \in i..e : text[k] = "#"
              /\ IsSpace(text[e + 1])

\* _evaluate_structure
EvaluateStructure(response) ==
    Cap(50 + (IF Contains(response, QualityTxt.ParagraphBreak) THEN 15 ELSE 0)
           + (IF Contains(response, QualityTxt.Backticks) THEN 15 ELSE 0)
           + (IF HasListItem(response) THEN 10 ELSE 0)
           + (IF HasHeaderLine(response) THEN 10 ELSE 0),
        100)

\* response.count(pat): the occurrences found left to right without overlap
RECURSIVE CountFrom(_, _, _)
CountFrom(text, pat, from) ==
    LET p == FirstMatch(text, from, pat)
    IN  IF p = 0 THEN 0 ELSE 1 + CountFrom(text, pat, p + Len(pat))

\* _is_truncated
IsTruncated(response) ==
    LET lowered == LowerText(response)
        last_chars == IF Len(response) > 50
                      THEN SubSeq(response, Len(response) - 49, Len(response))
                      ELSE response
    IN  \/ CountFrom(response, QualityTxt.Backticks, 1) % 2 # 0
        \/ Contains(lowered, Txt.HtmlStart) /\ ~Contains(lowered, Txt.HtmlClose)
        \/ \A i \in 1..Len(last_chars) : last_chars[i] \notin {".", "!", "?", ">", "}"}

\* len(response.split()): the number of maximal runs without white space
WordCount(text) ==
    Cardinality({i \in 1..Len(text) :
        ~IsSpace(text[i]) /\ (i = 1 \/ IsSpace(text[i - 1]))})

\* QualityEvaluator.evaluate
QualityEvaluate(response) ==
    LET r1 == AddScore(EmptyResult, "response_length", Frac(EvaluateLength(response), 1))
        r2 == AddMetric(AddMetric(r1, "character_count", Len(response)),
                        "word_count", WordCount(response))
        r3 == AddScore(r2, "completeness", Frac(EvaluateCompleteness(response), 1))
        r4 == AddScore(r3, "structure", Frac(EvaluateStructure(response), 1))
    IN  IF IsTruncated(response)
        THEN SetPassed(AddMetric(AddFeedback(r4, "Response appears to be truncated",
                                             "warning"),
                                 "truncated", TRUE),
                       FALSE)
        ELSE AddMetric(AddFeedback(r4, "Response appears complete", "success"),
                       "truncated", FALSE)


(***************************************************************************)
(* CompositeEvaluator                                                      *)
(***************************************************************************)

\* round(x, 2) of the float nearest to num/den, in hundredths; a tie is an
\* exactly representable float and goes to the even neighbour
RoundHundredths(f) ==
    LET n == f.num * 100
        q == n \div f.den
        twice == 2 * (n % f.den)
    IN  IF twice < f.den THEN q
        ELSE IF twice > f.den THEN q + 1
        ELSE IF q % 2 = 0 THEN q ELSE q + 1

\* the evaluators in the order of self.evaluators
EvaluatorNames == <<"expected_result", "html_code", "quality">>

RunEvaluator(name, response, test_config) ==
    IF name = "expected_result" THEN ExpectedResultEvaluate(response, test_config)
    ELSE IF name = "html_code" THEN HtmlCodeEvaluate(response)
    ELSE QualityEvaluate(response)

\* EvaluationResult.to_dict(), without the feedback
ToDict(result) ==
    [passed |-> result.passed,
     overall_score |-> RoundHundredths(GetOverallScore(result)),
     scored |-> DOMAIN result.scores # {},
     metrics |-> result.metrics]

\* lines 509-524 of CompositeEvaluator.evaluate, on the results of the
\* evaluators in their order; overall_score is in hundredths
CombineResults(results) ==
    LET scored == {i \in 1..Len(results) : DOMAIN results[i].scores # {}}
        failed == {i \in 1..Len(results) : ~results[i].passed}
        total_score == FracSum([i \in 1..Len(results) |-> GetOverallScore(results[i])],
                               scored)
        score_count == Cardinality(scored)
    IN  [overall_passed |-> failed = {},
         overall_score |-> IF score_count > 0
                           THEN RoundHundredths(Frac(total_score.num,
                                                     total_score.den * score_count))
                           ELSE 0,
         evaluations |-> [i \in 1..Len(results) |-> ToDict(results[i])],
         summary |-> [total_scores |-> score_count,
                      passed_evaluations |-> Len(results) - Cardinality(failed),
                      failed_evaluations |-> Cardinality(failed)]]

\* CompositeEvaluator.evaluate: every evaluator is run once (lines 505-506)
\* and the results are combined
CompositeEvaluate(response, test_config) ==
    CHOOSE combined \in
        {CombineResults(results) : results \in
            {[i \in 1..Len(EvaluatorNames) |->
                RunEvaluator(EvaluatorNames[i], response, test_config)]}} : TRUE

\* the complete document of the HTML tests
CompleteDocument == Flatten(DocHead \o DocTail)

\* the responses the composite is run on: the short texts, and the complete
\* document alone, in a closed block, in a block cut off before its end, and
\* in such a block after three backquotes in the text before it
CompositeResponses ==
    Responses \cup {CompleteDocument,
                    Doc.FenceOpen \o CompleteDocument \o Doc.FenceClose,
                    Doc.FenceOpen \o CompleteDocument,
                    QualityTxt.Backticks \o <<" ">> \o Doc.FenceOpen \o CompleteDocument}

\* a caller runs CompositeEvaluator().evaluate(response, test_config)
CompositeCall(response, test_config) ==
    /\ co.pc = "idle"
    /\ co' = [pc |-> "done", response |-> response, test_config |-> test_config,
              result |-> Some(CompositeEvaluate(response, test_config))]
    /\ UNCHANGED <<use_llm_judge, pc, prompt, render_raised, functional_result,
                   judge_reply, quality, overall_score, passed, judge_calls, hy,
                   ex, ht, tg, rn, er, ag>>

\* the caller takes the result
CompositeReturn ==
    /\ co.pc = "done"
    /\ co' = CompositeIdle
    /\ UNCHANGED <<use_llm_judge, pc, prompt, render_raised, functional_result,
                   judge_reply, quality, overall_score, passed, judge_calls, hy,
                   ex, ht, tg, rn, er, ag>>

NextComposite ==
    \/ \E response \in CompositeResponses, test_config \in ExpectedConfigs :
          CompositeCall(response, test_config)
    \/ CompositeReturn

SpecComposite == InitIdle /\ [][NextComposite]_vars

(***************************************************************************)
(* Properties of the composite and of the missing expected result          *)
(***************************************************************************)

NoExpected == ex.test_config = None \/ ex.test_config[1] = <<>>

\* C12: when expected is absent or the empty string, the expected-result
\* evaluator returns nothing (null) instead of a scored result.
C12_NoExpectedReturnsNothing ==
    (ex.pc = "done" /\ NoExpected) => ex.result = None

CompositeDone == co.pc = "done"

\* C13: a low-similarity verdict of the expected-result component sets only
\* that component's pass flag to false; the composite's overall passed is
\* decided only by comparing the combined overall score with the threshold.
C13_OverallPassedByThresholdOnly ==
    (CompositeDone /\ ~co.result[1].evaluations[1].passed) =>
        (co.result[1].overall_passed <=> co.result[1].overall_score >= 7000)


-----------------------------------------------------------------------------
(* Properties of the judge's lenient parse *)

\* the first {...} span of a reply when it is a well-formed object: from the
\* first "{" to the "}" that closes it
ClaimFirstObject(text) ==
    LET opens == {i \in 1..Len(text) : text[i] = "lbrace"}
        i == CHOOSE a \in opens : \A b \in opens : a <= b
    IN  IF opens = {} THEN <<>>
        ELSE IF i + 1 <= Len(text) /\ text[i + 1] = "rbrace"
        THEN SubSeq(text, i, i + 1)
        ELSE IF i + 2 <= Len(text) /\ text[i + 1] = "members" /\ text[i + 2] = "rbrace"
        THEN SubSeq(text, i, i + 2)
        ELSE <<>>

\* C23: for every reply that contains a well-formed JSON object, possibly
\* preceded by prose and possibly followed by further text (also text with
\* braces), the judge parses the first {...} span and returns that object's
\* score and feedback rather than the failure sentinel.
C23_FirstObjectParsed ==
    (/\ judge_reply # None
     /\ ~judge_reply[1].throws
     /\ ClaimFirstObject(judge_reply[1].text) # <<>>) =>
        /\ quality # None
        /\ quality[1] =
              IF HasToken(ClaimFirstObject(judge_reply[1].text), "members")
              THEN [quality_score |-> judge_reply[1].score, feedback |-> "sentence"]
              ELSE [quality_score |-> Num(0), feedback |-> "No feedback"]


-----------------------------------------------------------------------------
(* Properties of the extraction of HTML from a response *)

Extracted == ht.pc = "extracted"

ClaimBackticks(r, i) ==
    /\ i + 2 <= Len(r)
    /\ r[i] = Backtick /\ r[i + 1] = Backtick /\ r[i + 2] = Backtick

\* the opening html fences of r as pairs <<p, n>>: three backquotes and the
\* word html (in any case) at p, then only white space up to the line end n
ClaimOpenings(r) ==
    UNION {{<<p, n>> : n \in {m \in (p + 7)..Len(r) :
                                /\ r[m] = "\n"
                                /\ \A k \in (p + 7)..(m - 1) : IsSpace(r[k])}} :
           p \in {q \in 1..Len(r) :
                    /\ ClaimBackticks(r, q)
                    /\ q + 6 <= Len(r)
                    /\ LowerText(SubSeq(r, q + 3, q + 6)) = <<"h", "t", "m", "l">>}}

\* the lines after position n that begin with three backquotes, by the
\* position of the line break before them
ClaimClosings(r, n) == {c \in (n + 1)..Len(r) : r[c] = "\n" /\ ClaimBackticks(r, c + 1)}

\* the closed blocks: an opening fence with a closing fence after its line
ClaimClosedBlocks(r) == {b \in ClaimOpenings(r) : ClaimClosings(r, b[2]) # {}}

\* the content of a closed block runs up to the first closing fence
ClaimContent(r, b) ==
    LET c == CHOOSE x \in ClaimClosings(r, b[2]) : \A y \in ClaimClosings(r, b[2]) : x <= y
    IN  Strip(SubSeq(r, b[2] + 1, c - 1))

ClaimFirst(blocks) == {b \in blocks : \A other \in blocks : b[1] <= other[1]}

ClaimDocumentStart(r) ==
    \/ MatchesAt(LowerText(Strip(r)), <<"<", "!", "d", "o", "c", "t", "y", "p", "e">>, 1)
    \/ MatchesAt(LowerText(Strip(r)), <<"<", "h", "t", "m", "l">>, 1)

-----------------------------------------------------------------------------
(* Properties of the truncation signal *)

\* the response holds an html fence that is opened and never closed
UnclosedFenceOnly ==
    /\ co.pc = "done"
    /\ ClaimClosedBlocks(co.response) = {}
    /\ ClaimOpenings(co.response) # {}

\* C22: whenever extraction succeeds only through the unclosed-fence tier,
\* the partial content is returned (not null) and the evaluation output
\* carries a distinct truncation signal (truncated = true), so a truncated
\* block is never reported the same way as a complete one.
C22_UnclosedFenceIsFlagged ==
    UnclosedFenceOnly =>
        /\ ExtractHtml(co.response) # None
        /\ co.result[1].evaluations[2].scored
        /\ co.result[1].evaluations[3].metrics.truncated

(***************************************************************************)
(* An EvaluationResult under a sequence of add_score calls (SpecScores)    *)
(***************************************************************************)

MaxAddScoreCalls == 3

ScoresUnchanged ==
    UNCHANGED <<use_llm_judge, pc, prompt, render_raised, functional_result,
                judge_reply, quality, overall_score, passed, judge_calls, hy,
                ex, ht, tg, co, rn, ag>>

\* result = EvaluationResult()
ScoresNew ==
    /\ er.pc = "idle"
    /\ er' = [er EXCEPT !.pc = "open", !.result = Some(EmptyResult)]
    /\ ScoresUnchanged

\* result.add_score(name, value, max_value); recorded holds the "value" and
\* "max" of the entry, result.scores its "percentage"
ScoresAdd(name, value, max_value) ==
    /\ er.pc = "open"
    /\ er.calls < MaxAddScoreCalls
    /\ er' = [er EXCEPT
                !.result = Some(AddScoreWithMax(er.result[1], name, value, max_value)),
                !.recorded = (name :> [value |-> value, max |-> max_value]) @@ er.recorded,
                !.call = Some([name |-> name, value |-> value, max_value |-> max_value]),
                !.calls = @ + 1,
                !.overall = None]
    /\ ScoresUnchanged

\* overall = result.get_overall_score()
ScoresOverall ==
    /\ er.pc = "open"
    /\ er.overall = None
    /\ er' = [er EXCEPT !.overall = Some(GetOverallScore(er.result[1]))]
    /\ ScoresUnchanged

\* the result is dropped
ScoresDiscard ==
    /\ er.pc = "open"
    /\ er' = ScoresIdle
    /\ ScoresUnchanged

NextScores ==
    \/ ScoresNew
    \* max_value is any number the caller passes: negative, zero, below the value
    \/ \E name \in {"a", "b"}, value \in {0, 30, 100}, max_value \in {0 - 50, 0, 50, 100} :
          ScoresAdd(name, value, max_value)
    \/ ScoresOverall
    \/ ScoresDiscard

SpecScores == InitIdle /\ [][NextScores]_vars

-----------------------------------------------------------------------------
(* Properties of the recorded scores *)

\* the step is an add_score call
ScoreAdded == er.pc = "open" /\ er'.pc = "open" /\ er'.calls = er.calls + 1

ClaimSame(x, y) == x.num * y.den = y.num * x.den

\* value/max*100, or 0 when max is 0
ClaimPercentage(value, max) ==
    IF max = 0 THEN [num |-> 0, den |-> 1] ELSE [num |-> value * 100, den |-> max]

\* value/max*100, or 0 when max is not positive
ClaimPercentagePositive(value, max) ==
    IF max <= 0 THEN [num |-> 0, den |-> 1] ELSE [num |-> value * 100, den |-> max]

\* a call records its percentage under its name, replaces what was recorded
\* under that name and leaves the other names alone
ClaimRecords(Pct(_, _)) ==
    ScoreAdded =>
        LET call == er'.call[1]
            before == er.result[1].scores
            after == er'.result[1].scores
        IN  /\ DOMAIN after = DOMAIN before \cup {call.name}
            /\ ClaimSame(after[call.name], Pct(call.value, call.max_value))
            /\ \A name \in DOMAIN before \ {call.name} : after[name] = before[name]

\* the sum of the percentages of the names in S, in hundredths (every max
\* that is passed divides 100 * 100)
RECURSIVE ClaimTotal(_, _)
ClaimTotal(scores, S) ==
    IF S = {} THEN 0
    ELSE LET name == CHOOSE x \in S : TRUE
         IN  (scores[name].num * 100) \div scores[name].den
                + ClaimTotal(scores, S \ {name})

\* get_overall_score is the unweighted mean of the recorded percentages, and
\* 0 when nothing is recorded
ClaimMean ==
    er'.overall # None =>
        LET scores == er'.result[1].scores
            count == Cardinality(DOMAIN scores)
        IN  IF count = 0 THEN er'.overall[1].num = 0
            ELSE ClaimSame(er'.overall[1],
                           [num |-> ClaimTotal(scores, DOMAIN scores),
                            den |-> 100 * count])

MaxRetries == 3

RECURSIVE Pow2(_)
Pow2(n) == IF n <= 0 THEN 1 ELSE 2 * Pow2(n - 1)

WaitTimeOneLate(attempt) == Pow2(attempt - 1)

\* line 68: wait_time = 2 ** attempt
WaitTime(attempt) == Pow2(attempt)

IsEmptyResponseUnstripped(response) == response = None \/ response[1] = <<>>

\* line 76: not response or (isinstance(response, str) and
\* len(response.strip()) == 0), for a response that is None or a str
IsEmptyResponse(response) ==
    response = None \/ response[1] = <<>> \/ Strip(response[1]) = <<>>

\* what self.agent.start(prompt) does: it returns a text, a blank text, an
\* empty text or None, or it raises an Exception
AgentOutcomes ==
    {[raises |-> FALSE, response |-> Some(<<"o", "k">>)],
     [raises |-> FALSE, response |-> Some(<<" ", "\n">>)],
     [raises |-> FALSE, response |-> Some(<<>>)],
     [raises |-> FALSE, response |-> None],
     [raises |-> TRUE, response |-> None]}

\* the head of  for attempt in range(max_retries)  with the next value of
\* attempt: the body starts with the sleep of lines 66-70 or, on the first
\* pass, with the call of line 72; after the last value the loop is left for
\* the return of lines 142-154
LoopHead(a, attempt) ==
    IF attempt < a.max_retries
    THEN [a EXCEPT !.attempt = attempt,
                   !.pc = IF attempt > 0 THEN "sleep" ELSE "start"]
    ELSE [a EXCEPT !.attempt = attempt,
                   !.pc = "returned",
                   !.result = Some([status |-> "error", response |-> None,
                                    error |-> IF a.last_error # None
                                              THEN a.last_error[1]
                                              ELSE "Unknown error after retries",
                                    retry_attempts |-> Some(a.max_retries)])]

\* lines 80-97 and 123-140: retry while attempt < max_retries - 1, otherwise
\* return the error result
RetryOrFail(a, error_msg) ==
    IF a.attempt < a.max_retries - 1
    THEN LoopHead([a EXCEPT !.last_error = Some(error_msg)], a.attempt + 1)
    ELSE [a EXCEPT !.pc = "returned",
                   !.result = Some([status |-> "error", response |-> None,
                                    error |-> error_msg,
                                    retry_attempts |-> Some(a.attempt + 1)])]

AgentUnchanged ==
    UNCHANGED <<use_llm_judge, pc, prompt, render_raised, functional_result,
                judge_reply, quality, overall_score, passed, judge_calls, hy,
                ex, ht, tg, co, rn, er>>

\* a caller runs run_test(prompt, test_name, max_retries): lines 62-65
AgentRunTest(max_retries) ==
    /\ ag.pc = "idle"
    /\ ag' = LoopHead([AgentIdle EXCEPT !.max_retries = max_retries], 0)
    /\ AgentUnchanged

\* lines 66-70: time.sleep(wait_time)
AgentSleep ==
    /\ ag.pc = "sleep"
    /\ ag' = [ag EXCEPT !.pc = "start",
                        !.events = Append(@, [kind |-> "sleep",
                                              seconds |-> WaitTime(ag.attempt),
                                              outcome |-> None])]
    /\ AgentUnchanged

\* line 72: response = self.agent.start(prompt)
AgentStart(outcome) ==
    /\ ag.pc = "start"
    /\ ag' = [ag EXCEPT !.pc = IF outcome.raises THEN "except" ELSE "check",
                        !.response = outcome.response,
                        !.events = Append(@, [kind |-> "start", seconds |-> 0,
                                              outcome |-> Some(outcome)])]
    /\ AgentUnchanged

\* lines 75-116: the empty response is retried or reported, any other
\* response is returned; retry_attempts is set only after a retry
AgentCheck ==
    /\ ag.pc = "check"
    /\ ag' = IF IsEmptyResponse(ag.response)
             THEN RetryOrFail(ag, "Agent returned empty response")
             ELSE [ag EXCEPT !.pc = "returned",
                             !.result = Some([status |-> "success",
                                              response |-> ag.response,
                                              error |-> "",
                                              retry_attempts |->
                                                  IF ag.attempt > 0
                                                  THEN Some(ag.attempt + 1)
                                                  ELSE None])]
    /\ AgentUnchanged

\* lines 118-140: except Exception
AgentExcept ==
    /\ ag.pc = "except"
    /\ ag' = RetryOrFail(ag, "Agent failed")
    /\ AgentUnchanged

\* the caller takes the result
AgentReturn ==
    /\ ag.pc = "returned"
    /\ ag' = AgentIdle
    /\ AgentUnchanged

AgentStep ==
    \/ AgentSleep
    \/ \E outcome \in AgentOutcomes : AgentStart(outcome)
    \/ AgentCheck
    \/ AgentExcept

NextAgent ==
    \/ \E max_retries \in 0..MaxRetries : AgentRunTest(max_retries)
    \/ AgentStep
    \/ AgentReturn

SpecAgent == InitIdle /\ [][NextAgent]_vars

\* run_test runs on: the sleep ends, the agent returns or raises, and the
\* code after them is executed
SpecAgentLive == SpecAgent /\ WF_vars(AgentStep)


-----------------------------------------------------------------------------
(* Properties of run_test *)

\* the calls of the agent made so far, in order, by their outcomes
AgentCalls ==
    LET starts == SelectSeq(ag.events, LAMBDA e : e.kind = "start")
    IN  [i \in 1..Len(starts) |-> starts[i].outcome[1]]

\* the attempt raised or returned nothing but white space
ClaimFailedAttempt(outcome) ==
    \/ outcome.raises
    \/ outcome.response = None
    \/ \A i \in 1..Len(outcome.response[1]) : outcome.response[1][i] \in {" ", "\n", "\t"}

AgentReturned == ag.pc = "returned"

ClaimRunTestResult ==
    LET calls == AgentCalls
        every_attempt_failed ==
            /\ Len(calls) = ag.max_retries
            /\ \A i \in 1..Len(calls) : ClaimFailedAttempt(calls[i])
    IN  /\ Len(calls) <= ag.max_retries
        /\ \A i \in 1..(Len(calls) - 1) : ClaimFailedAttempt(calls[i])
        /\ AgentReturned =>
              /\ ag.result[1].status \in {"success", "error"}
              /\ ag.result[1].status = "success" =>
                    /\ ~ClaimFailedAttempt(calls[Len(calls)])
                    /\ ag.result[1].response = calls[Len(calls)].response
              /\ ag.result[1].status = "error" <=> every_attempt_failed
              /\ ag.result[1].status = "error" =>
                    /\ ag.result[1].response = None
                    /\ ag.result[1].retry_attempts = Some(ag.max_retries)
              /\ ag.result[1].retry_attempts # None =>
                    ag.result[1].retry_attempts[1] = Len(calls)

\* C28: run_test with max_retries >= 1 always terminates and never raises:
\* it calls the agent at most max_retries times, stops at the first attempt
\* that returns a non-empty (non-whitespace) response and returns status
\* "success" with that response; it returns status "error" with response None
\* exactly when every one of the max_retries attempts raised or returned an
\* empty response, and then retry_attempts equals max_retries; whenever
\* retry_attempts is present it equals the number of attempts made.
C28_RunTestTerminates ==
    /\ [](ag.max_retries >= 1 => ClaimRunTestResult)
    /\ (ag.pc # "idle" /\ ag.max_retries >= 1) ~> AgentReturned

\* a call that returned "success" at its third attempt, after an exception and
\* a blank response
C28_Witness ==
    /\ AgentReturned
    /\ ag.max_retries = 3
    /\ Len(AgentCalls) = 3
    /\ AgentCalls[1].raises
    /\ AgentCalls[2].response = Some(<<" ", "\n">>)
    /\ ag.result[1].status = "success"
    /\ ag.result[1].retry_attempts = Some(3)

\* 2^a seconds for the attempt with zero-based index a
ClaimWait(a) == IF a = 1 THEN 2 ELSE IF a = 2 THEN 4 ELSE IF a = 3 THEN 8 ELSE 16

\* the zero-based index of the attempt made by the start event at position i
ClaimAttemptIndex(i) ==
    Cardinality({j \in 1..(i - 1) : ag.events[j].kind = "start"})

\* C29: retries use exponential backoff: there is no wait before the first
\* attempt; the wait immediately before the attempt with zero-based index
\* a > 0 is 2^a seconds (2 s before the second attempt, 4 s before the third);
\* a wait always precedes its attempt and follows the failure of the previous
\* one; no wait occurs after the final failed attempt or after a success.
C29_ExponentialBackoff ==
    LET events == ag.events
    IN  /\ \A i \in 1..Len(events) :
              IF events[i].kind = "start"
              THEN IF ClaimAttemptIndex(i) = 0
                   THEN i = 1
                   ELSE /\ events[i - 1].kind = "sleep"
                        /\ events[i - 1].seconds = ClaimWait(ClaimAttemptIndex(i))
              ELSE /\ i > 1
                   /\ events[i - 1].kind = "start"
                   /\ ClaimFailedAttempt(events[i - 1].outcome[1])
                   /\ ClaimAttemptIndex(i) < ag.max_retries
        /\ (AgentReturned /\ events # <<>>) => events[Len(events)].kind = "start"
        /\ (events # <<>> /\ events[Len(events)].kind = "sleep") => ag.pc = "start"

\* a call that failed three times: it waited 2 s and 4 s, and not after the
\* third failure
C29_Witness ==
    /\ AgentReturned
    /\ ag.result[1].status = "error"
    /\ Len(ag.events) = 5
    /\ ag.events[2].seconds = 2
    /\ ag.events[4].seconds = 4


(***************************************************************************)
(* SimpleEvaluator.evaluate, step by step, in two pipelines that share one *)
(* evaluator and the screenshot directory (SpecRender)                     *)
(***************************************************************************)

Pipelines == DOMAIN RenderIdle.calls

RenderTxt ==
    [ Dir |-> <<"o", "u", "t", "p", "u", "t", "/", "s", "c", "r", "e", "e", "n",
                "s", "h", "o", "t", "s", "/">>,
      Png |-> <<".", "p", "n", "g">>,
      NameA |-> <<"a">>,
      NameAPng |-> <<"a", ".", "p", "n", "g">> ]

ScreenshotPathShared(test_name) == RenderTxt.Dir \o <<"s", "h", "o", "t">> \o RenderTxt.Png

\* line 90: screenshot_path = f'output/screenshots/{test_name}.png'
ScreenshotPath(test_name) == RenderTxt.Dir \o test_name \o RenderTxt.Png

NewResultKeepsPrevious(previous) ==
    IF previous = None THEN [InitialResult EXCEPT !.screenshot = None] ELSE previous[1]

\* lines 56-65: a new dict, whatever an earlier call returned; 'screenshot'
\* is None or a path
NewResult(previous) == [InitialResult EXCEPT !.screenshot = None]

PlaywrightStopLeavesBrowser(browser) == browser

\* line 68, leaving the with block: the playwright instance is stopped, which
\* closes a browser that was launched from it and is still open
PlaywrightStop(browser) == IF browser = "open" THEN "closed" ELSE browser

\* one pipeline's call takes a step
RenderStepTo(p, call, files) ==
    /\ rn' = [rn EXCEPT !.calls[p] = call, !.files = files]
    /\ UNCHANGED <<use_llm_judge, pc, prompt, render_raised, functional_result,
                   judge_reply, quality, overall_score, passed, judge_calls, hy,
                   ex, ht, tg, co, er, ag>>

\* lines 56-71: the result dict, sync_playwright(), launch, new_page
RenderBegin(p, test_name, raised) ==
    /\ rn.calls[p].pc = "idle"
    /\ RenderStepTo(p,
          [RenderCallIdle EXCEPT
              !.pc = IF raised = "none" THEN "load" ELSE "exit",
              !.test_name = test_name,
              !.browser = IF raised \in {"none", "new_page"} THEN "open" ELSE "none",
              !.raised = raised,
              !.result = Some(NewResult(rn.calls[p].result))],
          rn.files)

\* lines 74-86: the page is loaded; the console errors go to the local list
RenderLoad(p, raised, nerrors, elapsed) ==
    /\ rn.calls[p].pc = "load"
    /\ RenderStepTo(p,
          [rn.calls[p] EXCEPT
              !.pc = IF raised = "none" THEN "screenshot" ELSE "exit",
              !.raised = raised,
              !.nerrors = nerrors,
              !.elapsed = IF raised = "none" THEN elapsed ELSE 0],
          rn.files)

\* lines 89-100: the screenshot is written (files maps a path to the
\* pipeline whose picture it holds) and the result updated
RenderScreenshot(p, raised) ==
    /\ rn.calls[p].pc = "screenshot"
    /\ LET call == rn.calls[p]
           screenshot_path == ScreenshotPath(call.test_name)
       IN  IF raised = "none"
           THEN RenderStepTo(p,
                  [call EXCEPT
                      !.pc = "close",
                      !.wrote = Some(screenshot_path),
                      !.result = Some([call.result[1] EXCEPT
                                          !.renders = TRUE,
                                          !.errors = ConsoleErrors(call.nerrors),
                                          !.screenshot = Some(screenshot_path),
                                          !.render_time_ms = call.elapsed])],
                  (screenshot_path :> p) @@ rn.files)
           ELSE RenderStepTo(p, [call EXCEPT !.pc = "exit", !.raised = raised], rn.files)

\* line 102: browser.close()
RenderClose(p, raised) ==
    /\ rn.calls[p].pc = "close"
    /\ RenderStepTo(p,
          [rn.calls[p] EXCEPT
              !.pc = "exit",
              !.raised = raised,
              !.browser = IF raised = "none" THEN "closed" ELSE @],
          rn.files)

\* lines 68 and 104-112: the with block is left, the exception, if any, is
\* caught and recorded, and the score is computed
RenderExit(p) ==
    /\ rn.calls[p].pc = "exit"
    /\ LET call == rn.calls[p]
           caught == IF call.raised = "none" THEN call.result[1]
                     ELSE [call.result[1] EXCEPT !.errors = Append(@, "Browser error")]
           score == CalculateScore(caught)
       IN  RenderStepTo(p,
              [call EXCEPT
                  !.pc = "returned",
                  !.browser = IF call.raised = "sync_playwright" THEN @
                              ELSE PlaywrightStop(@),
                  !.result = Some([caught EXCEPT !.score = score,
                                                 !.passed = Passed(score)])],
              rn.files)

\* the caller takes the result and keeps it
RenderTake(p) ==
    /\ rn.calls[p].pc = "returned"
    /\ RenderStepTo(p, [RenderCallIdle EXCEPT !.result = rn.calls[p].result], rn.files)

NextRender ==
    \E p \in Pipelines :
        \/ \E test_name \in {RenderTxt.NameA, RenderTxt.NameAPng},
              raised \in {"none", "sync_playwright", "launch", "new_page"} :
              RenderBegin(p, test_name, raised)
        \/ \E raised \in {"none", "set_content", "wait_for_load_state"},
              nerrors \in {0, 1}, elapsed \in {999} :
              RenderLoad(p, raised, nerrors, elapsed)
        \/ \E raised \in {"none", "screenshot"} : RenderScreenshot(p, raised)
        \/ \E raised \in {"none", "close"} : RenderClose(p, raised)
        \/ RenderExit(p)
        \/ RenderTake(p)

SpecRender == InitIdle /\ [][NextRender]_vars


-----------------------------------------------------------------------------
(* Properties of the rendering pipelines *)

ClaimOwnResult(call) ==
    LET expected == RenderResult(IF call.raised = "none" THEN "ok" ELSE call.raised,
                                 call.nerrors, call.elapsed)
        result == call.result[1]
    IN  /\ result.renders = expected.renders
        /\ result.errors = expected.errors
        /\ result.render_time_ms = expected.render_time_ms
        /\ (result.screenshot # None) = expected.screenshot
        /\ result.score = CalculateScore(expected)
        /\ result.passed = (result.score >= 70)

\* C25: evaluators hold no state across calls: for any sequence of evaluate
\* calls on one evaluator instance, the scores, metrics and passed flag
\* returned by a call depend only on that call's arguments and the
\* capabilities' replies during that call, not on earlier calls; each call
\* builds a fresh result object that no other call reads or writes.
C25_NoStateAcrossCalls ==
    [][/\ rn'.headless = rn.headless
       /\ \A p \in Pipelines :
             /\ rn'.calls[p].pc = "returned" => ClaimOwnResult(rn'.calls[p])
             /\ (rn.calls[p].pc = "idle" /\ rn'.calls[p].pc # "idle") =>
                   /\ ~rn'.calls[p].result[1].renders
                   /\ rn'.calls[p].result[1].errors = <<>>
                   /\ rn'.calls[p].result[1].screenshot = None
             /\ \A q \in Pipelines \ {p} :
                   rn'.calls[p] = rn.calls[p] \/ rn'.calls[q] = rn.calls[q]]_vars

\* a pipeline that holds the result of an earlier call with a screenshot has
\* returned from a call that failed at launch, while the other pipeline is in
\* the middle of a call
C25_Witness ==
    /\ rn.calls[1].pc = "returned"
    /\ rn.calls[1].raised = "launch"
    /\ rn.calls[1].result[1].errors = <<"Browser error">>
    /\ ScreenshotPath(rn.calls[1].test_name) \in DOMAIN rn.files
    /\ rn.files[ScreenshotPath(rn.calls[1].test_name)] = 1
    /\ rn.calls[2].pc = "close"

ClaimPath(test_name) ==
    <<"o", "u", "t", "p", "u", "t", "/">>
        \o <<"s", "c", "r", "e", "e", "n", "s", "h", "o", "t", "s", "/">>
        \o test_name \o <<".", "p", "n", "g">>

\* C26: when several pipelines run in parallel against the shared screenshot
\* directory, each pipeline writes its screenshot to a path determined only by
\* its test name, two pipelines with different test names never write to the
\* same path, under every interleaving, and the screenshot reference in a
\* pipeline's result is the file that pipeline wrote.
C26_ScreenshotPathByTestName ==
    [][/\ \A p \in Pipelines :
             LET call == rn'.calls[p]
             IN  IF call.wrote # None
                 THEN /\ call.wrote[1] = ClaimPath(call.test_name)
                      /\ call.wrote[1] \in DOMAIN rn'.files
                      /\ call.result[1].screenshot = call.wrote
                 ELSE call.pc # "idle" => call.result[1].screenshot = None
       /\ \A p \in Pipelines : \A q \in Pipelines \ {p} :
             (/\ rn'.calls[p].wrote # None
              /\ rn'.calls[q].wrote # None
              /\ rn'.calls[p].test_name # rn'.calls[q].test_name) =>
                 rn'.calls[p].wrote # rn'.calls[q].wrote
       /\ \A path \in DOMAIN rn'.files :
             (path \notin DOMAIN rn.files \/ rn'.files[path] # rn.files[path]) =>
                 \E p \in Pipelines :
                    /\ rn.calls[p].pc = "screenshot"
                    /\ rn'.calls[p].wrote = Some(path)
                    /\ rn'.files[path] = p]_vars

\* both pipelines are past their screenshot at the same time, under different
\* test names, and each file holds the picture of the pipeline that names it
C26_Witness ==
    /\ rn.calls[1].pc = "close"
    /\ rn.calls[2].pc = "close"
    /\ rn.calls[1].test_name = <<"a">>
    /\ rn.calls[2].test_name = <<"a", ".", "p", "n", "g">>
    /\ rn.files[rn.calls[1].result[1].screenshot[1]] = 1
    /\ rn.files[rn.calls[2].result[1].screenshot[1]] = 2

=============================================================================
